---- MODULE Spec2Model ----
(***************************************************************************)
(* A model of the zarrs chunked-array I/O engine: the array <-> chunk      *)
(* coordinate algebra, the store key layout, the chunk read / write /      *)
(* read-modify-write operations of an Array and the per-chunk lock table   *)
(* that serialises concurrent updates of one chunk.                        *)
(***************************************************************************)
EXTENDS Integers, Sequences, FiniteSets, TLC

(***************************************************************************)
(* Bounds of the model.                                                    *)
(***************************************************************************)
\* Number of array operations started in one behaviour.
MaxCalls == 2
\* Element values are 0 .. MaxVal.
MaxVal == 1

\* The longest list of keys, key ranges or key-start-values passed to a store.
MaxList == 3

(***************************************************************************)
(* Small helpers.                                                          *)
(***************************************************************************)
Max2(a, b) == IF a >= b THEN a ELSE b

Min2(a, b) == IF a <= b THEN a ELSE b

RECURSIVE Product(_)
Product(s) == IF s = <<>> THEN 1 ELSE Head(s) * Product(Tail(s))

Front(s) == SubSeq(s, 1, Len(s) - 1)

Repeat(v, n) == [k \in 1..n |-> v]

\* Result<T, E>
Ok(v) == [ok |-> TRUE, val |-> v]

Err(e) == [ok |-> FALSE, err |-> e]

\* Option<T> / MaybeBytes
None == [some |-> FALSE]

Some(v) == [some |-> TRUE, val |-> v]

(***************************************************************************)
(* Linearised <-> ND indices.                                              *)
(***************************************************************************)
\* A stride bug: every stride is the number of dimensions, not the size of
\* the dimension.
RECURSIVE ravel_indices_wrong_stride(_, _)
ravel_indices_wrong_stride(indices, shp) ==
    IF indices = <<>> THEN 0
    ELSE indices[Len(indices)]
         + Len(shp) * ravel_indices_wrong_stride(Front(indices), Front(shp))

\* index += i * count; count *= s, over the dimensions from last to first.
RECURSIVE ravel_indices(_, _)
ravel_indices(indices, shp) ==
    IF indices = <<>> THEN 0
    ELSE indices[Len(indices)]
         + shp[Len(shp)] * ravel_indices(Front(indices), Front(shp))

\* indices[i] = index % dim; index /= dim, over the dimensions from last to first.
RECURSIVE unravel_index(_, _)
unravel_index(index, shp) ==
    IF shp = <<>> THEN <<>>
    ELSE Append(unravel_index(index \div shp[Len(shp)], Front(shp)),
                index % shp[Len(shp)])

(***************************************************************************)
(* Array subsets: a hyper-rectangle (start, shape).                        *)
(***************************************************************************)
ArraySubset(start, shp) == [start |-> start, shape |-> shp]

new_with_start_end_inc(start, end) ==
    [start |-> start, shape |-> [i \in 1..Len(start) |-> end[i] - start[i] + 1]]

end_inc(s) == [i \in 1..Len(s.start) |-> s.start[i] + s.shape[i] - 1]

end_exc(s) == [i \in 1..Len(s.start) |-> s.start[i] + s.shape[i]]

num_elements(s) == Product(s.shape)

contains(s, idx) ==
    \A i \in 1..Len(idx) : s.start[i] <= idx[i] /\ idx[i] < s.start[i] + s.shape[i]

\* The intersection of two subsets of the same rank (empty: a zero extent).
overlap(a, b) ==
    LET st == [i \in 1..Len(a.start) |-> Max2(a.start[i], b.start[i])]
        en == [i \in 1..Len(a.start) |-> Min2(end_exc(a)[i], end_exc(b)[i])]
    IN  [start |-> st,
         shape |-> [i \in 1..Len(st) |-> IF en[i] > st[i] THEN en[i] - st[i] ELSE 0]]

relative_to(s, origin) ==
    [start |-> [i \in 1..Len(origin) |-> s.start[i] - origin[i]], shape |-> s.shape]

inbounds(s, shp) == \A i \in 1..Len(shp) : s.start[i] + s.shape[i] <= shp[i]

Disjoint(a, b) == num_elements(overlap(a, b)) = 0

\* The ND index of the k-th element (k from 0, row-major) of subset s.
SubsetIndex(s, k) ==
    LET rel == unravel_index(k, s.shape)
    IN  [i \in 1..Len(s.start) |-> s.start[i] + rel[i]]

\* The bytes of subset s (relative to an array of shape shp, one byte per
\* element) gathered from the row-major bytes of that array.
extract_bytes(s, bytes, shp) ==
    [k \in 1..num_elements(s) |-> bytes[ravel_indices(SubsetIndex(s, k - 1), shp) + 1]]

\* The row-major bytes of an array of shape shp with the bytes of subset s
\* replaced by sub_bytes (row-major over s).
update_bytes(bytes, shp, s, sub_bytes) ==
    [p \in 1..Len(bytes) |->
        LET idx == unravel_index(p - 1, shp)
        IN  IF contains(s, idx)
            THEN sub_bytes[ravel_indices([i \in 1..Len(idx) |-> idx[i] - s.start[i]],
                                         s.shape) + 1]
            ELSE bytes[p]]

(***************************************************************************)
(* The regular chunk grid.                                                 *)
(***************************************************************************)
chunk_indices(idx, cs) == [i \in 1..Len(idx) |-> idx[i] \div cs[i]]

grid_subset(c, cs) == [start |-> [i \in 1..Len(c) |-> c[i] * cs[i]], shape |-> cs]

grid_shape(shp, cs) == [i \in 1..Len(shp) |-> (shp[i] + cs[i] - 1) \div cs[i]]

\* The end chunk is taken from the subset's start, not its last index.
chunks_in_array_subset_start_only(s, cs) ==
    new_with_start_end_inc(chunk_indices(s.start, cs), chunk_indices(s.start, cs))

\* Array::chunks_in_array_subset: the chunks from chunk_indices(start) to
\* chunk_indices(end_inc), both inclusive.
chunks_in_array_subset(s, cs) ==
    LET chunks_start == chunk_indices(s.start, cs)
        chunks_end   == chunk_indices(end_inc(s), cs)
    IN  new_with_start_end_inc(chunks_start, chunks_end)

\* The set of ND indices of a subset.
RECURSIVE IndicesOf(_, _)
IndicesOf(start, shp) ==
    IF start = <<>> THEN {<<>>}
    ELSE {<<i>> \o rest : i \in Head(start)..(Head(start) + Head(shp) - 1),
                          rest \in IndicesOf(Tail(start), Tail(shp))}

Indices(s) == IndicesOf(s.start, s.shape)

(***************************************************************************)
(* The codec pipeline of the array: the array-to-bytes stage lays one byte *)
(* per element out in row-major order, followed by one bytes-to-bytes      *)
(* compressor, modelled as run-length coding: a blob is a sequence of      *)
(* <<run length, byte>> pairs.                                             *)
(***************************************************************************)
\* The length of the leading run of equal bytes of a non-empty sequence.
RunLen(b) ==
    CHOOSE n \in 1..Len(b) :
        /\ \A i \in 1..n : b[i] = b[1]
        /\ (n = Len(b) \/ b[n + 1] # b[1])

RECURSIVE encode(_)
encode(b) ==
    IF b = <<>> THEN <<>>
    ELSE <<<<RunLen(b), b[1]>>>> \o encode(SubSeq(b, RunLen(b) + 1, Len(b)))

RECURSIVE Expand(_)
Expand(blob) ==
    IF blob = <<>> THEN <<>>
    ELSE Repeat(Head(blob)[2], Head(blob)[1]) \o Expand(Tail(blob))

\* decode verifies that the decoded length is the expected decoded size.
decode(blob, size) ==
    IF Len(Expand(blob)) = size THEN Ok(Expand(blob))
    ELSE Err("UnexpectedChunkDecodedSize")

(***************************************************************************)
(* The store: a map from keys to values.                                   *)
(***************************************************************************)
EmptyStore == [k \in {} |-> <<>>]

store_get(st, key) == IF key \in DOMAIN st THEN Some(st[key]) ELSE None

store_set(st, key, value) ==
    [k \in DOMAIN st \cup {key} |-> IF k = key THEN value ELSE st[k]]

store_erase(st, key) == [k \in DOMAIN st \ {key} |-> st[k]]

size_key(st, key) == IF key \in DOMAIN st THEN Some(Len(st[key])) ELSE None

(***************************************************************************)
(* Store keys and the chunk operations of the storage module.              *)
(***************************************************************************)
\* The default chunk key encoding: "c" then each coordinate, separated by "/".
RECURSIVE JoinCoordinates(_)
JoinCoordinates(c) ==
    IF c = <<>> THEN "" ELSE "/" \o ToString(Head(c)) \o JoinCoordinates(Tail(c))

chunk_key_encode(c) == "c" \o JoinCoordinates(c)

\* The node path with its leading "/" stripped; the root path is "/".
StripRoot(path) == IF path = "/" THEN "" ELSE Tail(path)

meta_key(path) ==
    IF path = "/" THEN "zarr.json" ELSE StripRoot(path) \o "/zarr.json"

\* Every chunk of the array gets the key of the chunk at the origin.
data_key_ignores_indices(path, chunk_grid_indices) ==
    IF path = "/" THEN chunk_key_encode([i \in 1..Len(chunk_grid_indices) |-> 0])
    ELSE StripRoot(path) \o "/"
         \o chunk_key_encode([i \in 1..Len(chunk_grid_indices) |-> 0])

data_key(path, chunk_grid_indices) ==
    IF path = "/" THEN chunk_key_encode(chunk_grid_indices)
    ELSE StripRoot(path) \o "/" \o chunk_key_encode(chunk_grid_indices)

\* storage::store_chunk: set the chunk's key.
store_chunk(st, array_path, chunk_grid_indices, chunk_serialised) ==
    store_set(st, data_key(array_path, chunk_grid_indices), chunk_serialised)

\* A failed store read is answered as a missing key.
retrieve_chunk_swallows_error(st, array_path, chunk_grid_indices, io_ok) ==
    IF io_ok THEN Ok(store_get(st, data_key(array_path, chunk_grid_indices)))
    ELSE Ok(None)

\* storage::retrieve_chunk: get the chunk's key; the store's error is passed on.
retrieve_chunk(st, array_path, chunk_grid_indices, io_ok) ==
    IF io_ok THEN Ok(store_get(st, data_key(array_path, chunk_grid_indices)))
    ELSE Err("StorageError")

\* erase_chunk without the call of erase: the key stays.
erase_chunk_keeps_key(st, array_path, chunk_grid_indices) ==
    [store |-> st, existed |-> data_key(array_path, chunk_grid_indices) \in DOMAIN st]

\* storage::erase_chunk: erase the chunk's key; true if the key existed.
erase_chunk(st, array_path, chunk_grid_indices) ==
    [store   |-> store_erase(st, data_key(array_path, chunk_grid_indices)),
     existed |-> data_key(array_path, chunk_grid_indices) \in DOMAIN st]

(***************************************************************************)
(* The state: the Array's fields, the global configuration it reads, the   *)
(* store it shares, its chunk lock tables, and the operations in flight.   *)
(***************************************************************************)
VARIABLES
    array,                \* the other fields of the Array, or why there is none
    config,               \* the global Config: its cell and its other options
    shape,                \* Array::shape
    chunk_shape,          \* Array::chunk_grid (regular): the chunk shape
    fill_value,           \* Array::fill_value
    store_empty_chunks,   \* Config::store_empty_chunks
    store,                \* the store behind Array::storage: key -> value
    chunk_locks,          \* Array::chunk_locks / async_chunk_locks, per instance
    table_owner,          \* who holds the mutex around each lock table
    locked,               \* the chunk mutexes that are locked
    calls,                \* the array operations started so far
    tasks,                \* the per-chunk work of the operations in flight
    rd                    \* the result of the last read operation

vars == <<array, config, shape, chunk_shape, fill_value, store_empty_chunks, store,
          chunk_locks, table_owner, locked, calls, tasks, rd>>

\* The path of the array in the store.
ArrayPath == "/array"

\* Array instances that reference the same store and path.
ArrayIds == {1, 2}

\* The blocking and the async form of the operations, each with its lock table.
Forms == {"sync", "async"}

Tables == ArrayIds \X Forms

NoTask == <<0, <<>>>>

Vals == 0..MaxVal

ChunkSize == Product(chunk_shape)

FillBytes == Repeat(fill_value, ChunkSize)

\* All chunks of the grid, and all non-empty subsets of an array of shape shp.
AllChunks == Indices(ArraySubset([i \in 1..Len(shape) |-> 0], grid_shape(shape, chunk_shape)))

RECURSIVE RangesOf(_)
RangesOf(shp) ==
    IF shp = <<>> THEN {<<>>}
    ELSE {<<r>> \o rest : r \in {<<a, n>> \in (0..(Head(shp) - 1)) \X (1..Head(shp)) :
                                    a + n <= Head(shp)},
                          rest \in RangesOf(Tail(shp))}

SubsetsOf(shp) ==
    {ArraySubset([i \in 1..Len(shp) |-> r[i][1]], [i \in 1..Len(shp) |-> r[i][2]]) :
        r \in RangesOf(shp)}

IsWholeChunk(sub) ==
    sub.shape = chunk_shape /\ \A i \in 1..Len(sub.start) : sub.start[i] = 0

(***************************************************************************)
(* The chunk operations of an Array, as functions of the store.            *)
(***************************************************************************)
\* Array::retrieve_chunk: a missing key gives the fill value, a present one
\* is decoded; a store error or a decode error is returned.
Array_retrieve_chunk(st, c, io_ok) ==
    LET r == retrieve_chunk(st, ArrayPath, c, io_ok)
    IN  IF ~r.ok THEN r
        ELSE IF ~r.val.some THEN Ok(FillBytes)
        ELSE decode(r.val.val, ChunkSize)

\* Array::store_chunk does not encode and set a chunk of fill values unless
\* empty chunks are stored.
Elided(bytes) == ~store_empty_chunks /\ bytes = FillBytes

\* Array::store_chunk: the length is validated; a chunk of fill values is
\* erased unless empty chunks are stored; otherwise it is encoded and set.
\* fault: "none", "codec" (encoding fails) or "io" (the store fails).
Array_store_chunk(st, c, bytes, fault) ==
    IF Len(bytes) # ChunkSize
    THEN [store |-> st, result |-> "InvalidBytesInputSize"]
    ELSE IF Elided(bytes)
    THEN IF fault = "io" THEN [store |-> st, result |-> "StorageError"]
         ELSE [store |-> erase_chunk(st, ArrayPath, c).store, result |-> "Ok"]
    ELSE IF fault = "codec" THEN [store |-> st, result |-> "CodecError"]
    ELSE IF fault = "io" THEN [store |-> st, result |-> "StorageError"]
    ELSE [store |-> store_chunk(st, ArrayPath, c, encode(bytes)), result |-> "Ok"]

\* Array::retrieve_chunk_subset: the whole chunk is retrieved directly, a
\* part of it through the partial decoder (which decodes all and slices).
Array_retrieve_chunk_subset(st, c, sub) ==
    LET r == Array_retrieve_chunk(st, c, TRUE)
    IN  IF IsWholeChunk(sub) \/ ~r.ok THEN r
        ELSE Ok(extract_bytes(sub, r.val, chunk_shape))

\* Array::retrieve_array_subset: the output starts as fill values; the part
\* of each intersecting chunk is retrieved and scattered into it.
RECURSIVE RetrieveInto(_, _, _, _)
RetrieveInto(st, s, chunks, out) ==
    IF chunks = {} \/ ~out.ok THEN out
    ELSE LET c   == CHOOSE x \in chunks : TRUE
             ov  == overlap(s, grid_subset(c, chunk_shape))
             r   == Array_retrieve_chunk_subset(
                        st, c, relative_to(ov, grid_subset(c, chunk_shape).start))
         IN  RetrieveInto(st, s, chunks \ {c},
                 IF ~r.ok THEN r
                 ELSE Ok(update_bytes(out.val, s.shape, relative_to(ov, s.start), r.val)))

Array_retrieve_array_subset(st, s) ==
    RetrieveInto(st, s, Indices(chunks_in_array_subset(s, chunk_shape)),
                 Ok(Repeat(fill_value, num_elements(s))))

\* The subset that is the whole array.
WholeArray == ArraySubset([i \in 1..Len(shape) |-> 0], shape)

(***************************************************************************)
(* The chunk lock table.                                                   *)
(***************************************************************************)
\* HashMap::insert in place of entry().or_insert_with(): a call replaces the
\* mutex of a coordinate that already has one.
chunk_mutex_always_inserts(locks, chunk_indices_) ==
    LET g == IF chunk_indices_ \in DOMAIN locks THEN locks[chunk_indices_] + 1 ELSE 1
    IN  [locks |-> [c \in DOMAIN locks \cup {chunk_indices_} |->
                       IF c = chunk_indices_ THEN g ELSE locks[c]],
         mutex |-> g]

\* Array::chunk_mutex, between taking and dropping the table mutex: the entry
\* of the coordinate, inserted with a new mutex if absent, and a clone of it.
\* A mutex object is identified by its coordinate and a generation number.
chunk_mutex(locks, chunk_indices_) ==
    IF chunk_indices_ \in DOMAIN locks
    THEN [locks |-> locks, mutex |-> locks[chunk_indices_]]
    ELSE [locks |-> [c \in DOMAIN locks \cup {chunk_indices_} |->
                        IF c = chunk_indices_ THEN 1 ELSE locks[c]],
          mutex |-> 1]

\* Array::async_chunk_mutex: the same on the table of the async form.
async_chunk_mutex(locks, chunk_indices_) ==
    IF chunk_indices_ \in DOMAIN locks
    THEN [locks |-> locks, mutex |-> locks[chunk_indices_]]
    ELSE [locks |-> [c \in DOMAIN locks \cup {chunk_indices_} |->
                        IF c = chunk_indices_ THEN 1 ELSE locks[c]],
          mutex |-> 1]

\* std::mem::forget of the guards: the mutexes stay locked.
forget_guards(lk, guards) == lk

\* The guards of chunk mutexes go out of scope: the mutexes are unlocked.
drop_guards(lk, guards) == lk \ guards

(***************************************************************************)
(* Operations in flight.  A call is split over the chunks it touches; the  *)
(* per-chunk tasks of one call run in parallel.  A task is named by its    *)
(* call and its chunk.                                                     *)
(***************************************************************************)
\* One lock table for all instances: a table in a static instead of a field.
Table_of_all_instances(t) == <<1, calls[t[1]].form>>

\* One lock table for both forms: async_chunk_mutex on chunk_locks.
Table_of_both_forms(t) == <<calls[t[1]].array, "sync">>

Table(t) == <<calls[t[1]].array, calls[t[1]].form>>

\* The mutex object a task holds a clone of.
MutexOf(t) == <<Table(t), t[2], tasks[t].mutex>>

NewCall(op, a, f, c, s, bytes) ==
    [op |-> op, array |-> a, form |-> f, chunk |-> c, subset |-> s, bytes |-> bytes,
     state |-> "running", result |-> "Ok",
     store_empty_chunks |-> store_empty_chunks,
     before |-> store, alone |-> (DOMAIN tasks = {}), wrote |-> FALSE,
     faulted |-> FALSE, unwound |-> {}]

\* The work on one chunk: store_chunk_subset ("subset": the locked
\* read-modify-write of a part of the chunk) or store_chunk ("chunk": the
\* chunk is stored as given, no lock is taken).
NewTask(kind, sub, bytes) ==
    [kind |-> kind, sub |-> sub, bytes |-> bytes,
     pc |-> IF kind = "chunk" THEN "write" ELSE "table",
     mutex |-> 0, chunk_bytes |-> <<>>, result |-> "Ok"]

\* The tasks of store_array_subset(s, bytes) as call k: one per chunk that
\* intersects s, with the bytes of the intersection; a chunk that s covers
\* entirely is stored with store_chunk, any other with store_chunk_subset.
ArraySubsetTasks(k, s, bytes) ==
    [t \in {<<k, c>> : c \in Indices(chunks_in_array_subset(s, chunk_shape))} |->
        LET cs == grid_subset(t[2], chunk_shape)
            ov == overlap(s, cs)
        IN  NewTask(IF IsWholeChunk(relative_to(ov, cs.start)) THEN "chunk" ELSE "subset",
                    relative_to(ov, cs.start),
                    extract_bytes(relative_to(ov, s.start), bytes, s.shape))]

StartCall(call, new) ==
    /\ calls' = Append([k \in 1..Len(calls) |->
                           IF calls[k].state = "running"
                           THEN [calls[k] EXCEPT !.alone = FALSE] ELSE calls[k]],
                       call)
    /\ tasks' = [t \in DOMAIN tasks \cup DOMAIN new |->
                    IF t \in DOMAIN new THEN new[t] ELSE tasks[t]]
    /\ rd' = None
    /\ UNCHANGED <<array, config, shape, chunk_shape, fill_value, store_empty_chunks, store,
                   chunk_locks, table_owner, locked>>

\* Array::store_array_subset(s, bytes)
StoreArraySubset(a, f, s, bytes) ==
    /\ inbounds(s, shape)
    /\ Len(bytes) = num_elements(s)
    /\ StartCall(NewCall("store_array_subset", a, f, <<>>, s, bytes),
                 ArraySubsetTasks(Len(calls) + 1, s, bytes))

\* Array::store_chunk_subset(c, sub, bytes), sub relative to the chunk
StoreChunkSubset(a, f, c, sub, bytes) ==
    /\ inbounds(sub, chunk_shape)
    /\ Len(bytes) = num_elements(sub)
    /\ StartCall(NewCall("store_chunk_subset", a, f, c,
                         ArraySubset([i \in 1..Len(c) |->
                                         grid_subset(c, chunk_shape).start[i] + sub.start[i]],
                                     sub.shape),
                         bytes),
                 [t \in {<<Len(calls) + 1, c>>} |-> NewTask("subset", sub, bytes)])

\* Array::store_chunk(c, bytes)
StoreChunk(a, f, c, bytes) ==
    /\ StartCall(NewCall("store_chunk", a, f, c, grid_subset(c, chunk_shape), bytes),
                 [t \in {<<Len(calls) + 1, c>>} |->
                     NewTask("chunk", ArraySubset([i \in 1..Len(c) |-> 0], chunk_shape),
                             bytes)])

\* The tasks and calls after task t ends with `result`: the call returns
\* when its last task ends, with the first error if there was one.
Finished(t, result, cs) ==
    LET others == {u \in DOMAIN tasks : u[1] = t[1] /\ u # t}
        errors == ({tasks[u].result : u \in others} \cup {result}) \ {"Ok"}
    IN  IF \A u \in others : tasks[u].pc = "done"
        THEN [tasks |-> [u \in DOMAIN tasks \ (others \cup {t}) |-> tasks[u]],
              calls |-> [cs EXCEPT ![t[1]].state = "returned",
                                   ![t[1]].result =
                                       IF errors = {} THEN "Ok"
                                       ELSE CHOOSE e \in errors : TRUE]]
        ELSE [tasks |-> [tasks EXCEPT ![t] =
                            [tasks[t] EXCEPT !.pc = "done", !.result = result,
                                             !.mutex = 0, !.chunk_bytes = <<>>]],
              calls |-> cs]

\* chunk_mutex: self.chunk_locks.lock()
LockTable(t) ==
    /\ tasks[t].pc = "table"
    /\ table_owner[Table(t)] = NoTask
    /\ table_owner' = [table_owner EXCEPT ![Table(t)] = t]
    /\ tasks' = [tasks EXCEPT ![t].pc = "entry"]
    /\ UNCHANGED <<array, config, shape, chunk_shape, fill_value, store_empty_chunks, store,
                   chunk_locks, locked, calls, rd>>

\* chunk_mutex without drop(chunk_locks): the guard of the table is returned
\* with the chunk mutex and the table stays locked.
Entry_keeps_table_mutex(t) ==
    /\ tasks[t].pc = "entry"
    /\ LET r == chunk_mutex(chunk_locks[Table(t)], t[2])
       IN  /\ chunk_locks' = [chunk_locks EXCEPT ![Table(t)] = r.locks]
           /\ tasks' = [tasks EXCEPT ![t].pc = "acquire", ![t].mutex = r.mutex]
    /\ UNCHANGED <<array, config, shape, chunk_shape, fill_value, store_empty_chunks, store,
                   table_owner, locked, calls, rd>>

\* chunk_mutex: the entry is looked up or inserted and cloned, the table
\* mutex is dropped.
Entry(t) ==
    /\ tasks[t].pc = "entry"
    /\ LET r == IF calls[t[1]].form = "async"
                THEN async_chunk_mutex(chunk_locks[Table(t)], t[2])
                ELSE chunk_mutex(chunk_locks[Table(t)], t[2])
       IN  /\ chunk_locks' = [chunk_locks EXCEPT ![Table(t)] = r.locks]
           /\ tasks' = [tasks EXCEPT ![t].pc = "acquire", ![t].mutex = r.mutex]
    /\ table_owner' = [table_owner EXCEPT ![Table(t)] = NoTask]
    /\ UNCHANGED <<array, config, shape, chunk_shape, fill_value, store_empty_chunks, store,
                   locked, calls, rd>>

\* store_chunk_subset: let _lock = chunk_mutex.lock()
Acquire(t) ==
    /\ tasks[t].pc = "acquire"
    /\ MutexOf(t) \notin locked
    /\ locked' = locked \cup {MutexOf(t)}
    /\ tasks' = [tasks EXCEPT ![t].pc = "read"]
    /\ UNCHANGED <<array, config, shape, chunk_shape, fill_value, store_empty_chunks, store,
                   chunk_locks, table_owner, calls, rd>>

\* store_chunk_subset: the whole chunk is retrieved and decoded; an error
\* ends the operation.  io_ok: the store answers the read.
Read(t, io_ok) ==
    /\ tasks[t].pc = "read"
    /\ LET r == Array_retrieve_chunk(store, t[2], io_ok)
       IN  tasks' = IF r.ok
                    THEN [tasks EXCEPT ![t].pc = "write", ![t].chunk_bytes = r.val]
                    ELSE [tasks EXCEPT ![t].pc = "release", ![t].result = r.err]
    /\ calls' = [calls EXCEPT ![t[1]].faulted = @ \/ ~io_ok]
    /\ UNCHANGED <<array, config, shape, chunk_shape, fill_value, store_empty_chunks, store,
                   chunk_locks, table_owner, locked, rd>>

\* store_chunk_subset: the subset is written into the decoded chunk, which
\* is stored with store_chunk; store_chunk of a whole chunk stores the bytes.
\* fault: the step that fails, the encoding ("codec", where the chunk is
\* encoded) or the store ("io"), or "none".
Write(t, fault) ==
    /\ tasks[t].pc = "write"
    /\ LET bytes == IF tasks[t].kind = "subset"
                    THEN update_bytes(tasks[t].chunk_bytes, chunk_shape,
                                      tasks[t].sub, tasks[t].bytes)
                    ELSE tasks[t].bytes
           w     == Array_store_chunk(store, t[2], bytes, fault)
           cs    == [calls EXCEPT ![t[1]].wrote = @ \/ (w.store # store),
                                  ![t[1]].faulted = @ \/ (fault # "none")]
       IN  /\ fault = "codec" => ~Elided(bytes)
           /\ store' = w.store
           /\ IF tasks[t].kind = "subset"
              THEN /\ tasks' = [tasks EXCEPT ![t].pc = "release", ![t].result = w.result,
                                             ![t].chunk_bytes = <<>>]
                   /\ calls' = cs
              ELSE /\ tasks' = Finished(t, w.result, cs).tasks
                   /\ calls' = Finished(t, w.result, cs).calls
    /\ UNCHANGED <<array, config, shape, chunk_shape, fill_value, store_empty_chunks,
                   chunk_locks, table_owner, locked, rd>>

\* store_chunk_subset returns: the lock guard is dropped.
Release(t) ==
    /\ tasks[t].pc = "release"
    /\ locked' = drop_guards(locked, {MutexOf(t)})
    /\ tasks' = Finished(t, tasks[t].result, calls).tasks
    /\ calls' = Finished(t, tasks[t].result, calls).calls
    /\ UNCHANGED <<array, config, shape, chunk_shape, fill_value, store_empty_chunks, store,
                   chunk_locks, table_owner, rd>>

\* The future of async call k is dropped while it is suspended (waiting for
\* a lock or before store I/O): its tasks end there and the guards they hold
\* are dropped.
Cancel(k) ==
    LET mine == {t \in DOMAIN tasks : t[1] = k}
        held == {MutexOf(t) : t \in {u \in mine : tasks[u].pc \in {"read", "write"}
                                                  /\ tasks[u].kind = "subset"}}
    IN  /\ k \in 1..Len(calls)
        /\ calls[k].state = "running" /\ calls[k].form = "async"
        /\ \A t \in mine : tasks[t].pc \in {"table", "acquire", "read", "write", "done"}
        /\ locked' = drop_guards(locked, held)
        /\ tasks' = [t \in DOMAIN tasks \ mine |-> tasks[t]]
        /\ calls' = [calls EXCEPT ![k].state = "cancelled", ![k].unwound = held]
        /\ UNCHANGED <<array, config, shape, chunk_shape, fill_value, store_empty_chunks, store,
                       chunk_locks, table_owner, rd>>

\* Array::retrieve_chunk(c) by a caller; io_ok: the store answers the read.
\* The value of the key at the time of the read is kept with the result.
RetrieveChunk(c, io_ok) ==
    /\ rd' = Some([chunk |-> c, io_ok |-> io_ok,
                   blob |-> store_get(store, data_key(ArrayPath, c)),
                   result |-> Array_retrieve_chunk(store, c, io_ok)])
    /\ UNCHANGED <<array, config, shape, chunk_shape, fill_value, store_empty_chunks, store,
                   chunk_locks, table_owner, locked, calls, tasks>>

\* Config::set_store_empty_chunks, called between array operations.
SetStoreEmptyChunks(b) ==
    /\ DOMAIN tasks = {}
    /\ store_empty_chunks' = b
    /\ UNCHANGED <<array, config, shape, chunk_shape, fill_value, store, chunk_locks, table_owner,
                   locked, calls, tasks, rd>>

\* The callers drop the results of the calls that have returned.
Forget ==
    /\ calls # <<>> /\ DOMAIN tasks = {}
    /\ calls' = <<>>
    /\ UNCHANGED <<array, config, shape, chunk_shape, fill_value, store_empty_chunks, store,
                   chunk_locks, table_owner, locked, tasks, rd>>

(***************************************************************************)
(* Array metadata: the v3 document, the construction of an Array from it,  *)
(* the document an Array emits and the setters of an Array.                *)
(***************************************************************************)
\* serde_json::Map::new()
EmptyMap == [k \in {} |-> ""]

\* serde_json::Map::insert
map_insert(map, k, v) == [x \in DOMAIN map \cup {k} |-> IF x = k THEN v ELSE map[x]]

\* ArrayMetadataV3::new: the document of format 3 and node type "array".
ArrayMetadataV3_new(shp, dt, grid, encoding, fv, codecs, attrs, transformers, names, more) ==
    [zarr_format |-> 3, node_type |-> "array", shape |-> shp, data_type |-> dt,
     chunk_grid |-> grid, chunk_key_encoding |-> encoding,
     fill_value |-> fv, codecs |-> codecs, attributes |-> attrs,
     storage_transformers |-> transformers,
     dimension_names |-> names, additional_fields |-> more]

\* The metadata of the regular chunk grid with chunk shape cs.
RegularGrid(cs) == [name |-> "regular", configuration |-> [chunk_shape |-> cs]]

\* ArrayBuilder::new(shape, UInt8, chunk shape, fill value): its metadata.
BuilderMetadata(shp, cs, fv) ==
    ArrayMetadataV3_new(shp, "uint8", RegularGrid(cs),
                        [name |-> "default", configuration |-> [separator |-> "/"]],
                        fv, <<"bytes", "rle">>, EmptyMap, <<>>, None, EmptyMap)

\* NodePath::new: a node path is "/" or starts with "/" and does not end with it.
NodePath_new(path) ==
    IF path \in {"/", "/array", "/group/array"} THEN Ok(path) ELSE Err("NodePathError")

\* DataType::fill_value_from_metadata: the fill value must be one of the type.
fill_value_from_metadata(data_type, fv) ==
    IF data_type = "uint8" /\ fv \in 0..255 THEN Ok(fv)
    ELSE IF data_type = "int8" /\ fv \in (-128)..127 THEN Ok(fv)
    ELSE Err("InvalidFillValueMetadata")

\* The dimension names are checked against the chunk grid, not the shape.
new_with_metadata_checks_grid_only(path, metadata) ==
    IF ~NodePath_new(path).ok THEN Err("NodePathError")
    ELSE IF metadata.zarr_format # 3 THEN Err("InvalidZarrFormat")
    ELSE IF metadata.node_type # "array" THEN Err("InvalidNodeType")
    ELSE IF \E k \in DOMAIN metadata.additional_fields :
                metadata.additional_fields[k].must_understand
    THEN Err("UnsupportedAdditionalFieldError")
    ELSE IF metadata.data_type \notin {"uint8", "int8"} THEN Err("DataTypeCreateError")
    ELSE IF metadata.chunk_grid.name # "regular" THEN Err("ChunkGridCreateError")
    ELSE IF Len(metadata.chunk_grid.configuration.chunk_shape) # Len(metadata.shape)
    THEN Err("InvalidChunkGridDimensionality")
    ELSE IF ~fill_value_from_metadata(metadata.data_type, metadata.fill_value).ok
    THEN Err("InvalidFillValueMetadata")
    ELSE IF \E i \in 1..Len(metadata.codecs) : metadata.codecs[i] \notin {"bytes", "rle"}
    THEN Err("CodecsCreateError")
    ELSE IF metadata.storage_transformers # <<>>
    THEN Err("StorageTransformersCreateError")
    ELSE IF metadata.chunk_key_encoding.name # "default"
    THEN Err("ChunkKeyEncodingCreateError")
    ELSE Ok([path |-> path,
             shape |-> metadata.shape,
             data_type |-> metadata.data_type,
             chunk_grid |-> metadata.chunk_grid.configuration.chunk_shape,
             chunk_key_encoding |-> metadata.chunk_key_encoding,
             fill_value |-> metadata.fill_value,
             codecs |-> metadata.codecs,
             attributes |-> metadata.attributes,
             additional_fields |-> metadata.additional_fields,
             storage_transformers |-> metadata.storage_transformers,
             dimension_names |-> metadata.dimension_names,
             parallel_codecs |-> TRUE,
             include_zarrs_metadata |-> TRUE])

\* Array::new_with_metadata: the checks in the order of the code; the known
\* plugins are the data types uint8 and int8, the regular grid, the default
\* key encoding, the codecs "bytes" and "rle" and no storage transformer.
new_with_metadata(path, metadata) ==
    IF ~NodePath_new(path).ok THEN Err("NodePathError")
    ELSE IF metadata.zarr_format # 3 THEN Err("InvalidZarrFormat")
    ELSE IF metadata.node_type # "array" THEN Err("InvalidNodeType")
    ELSE IF \E k \in DOMAIN metadata.additional_fields :
                metadata.additional_fields[k].must_understand
    THEN Err("UnsupportedAdditionalFieldError")
    ELSE IF metadata.data_type \notin {"uint8", "int8"} THEN Err("DataTypeCreateError")
    ELSE IF metadata.chunk_grid.name # "regular" THEN Err("ChunkGridCreateError")
    ELSE IF Len(metadata.chunk_grid.configuration.chunk_shape) # Len(metadata.shape)
    THEN Err("InvalidChunkGridDimensionality")
    ELSE IF ~fill_value_from_metadata(metadata.data_type, metadata.fill_value).ok
    THEN Err("InvalidFillValueMetadata")
    ELSE IF \E i \in 1..Len(metadata.codecs) : metadata.codecs[i] \notin {"bytes", "rle"}
    THEN Err("CodecsCreateError")
    ELSE IF metadata.storage_transformers # <<>>
    THEN Err("StorageTransformersCreateError")
    ELSE IF metadata.chunk_key_encoding.name # "default"
    THEN Err("ChunkKeyEncodingCreateError")
    ELSE IF /\ metadata.dimension_names.some
            /\ Len(metadata.dimension_names.val) # Len(metadata.shape)
    THEN Err("InvalidDimensionNames")
    ELSE Ok([path |-> path,
             shape |-> metadata.shape,
             data_type |-> metadata.data_type,
             chunk_grid |-> metadata.chunk_grid.configuration.chunk_shape,
             chunk_key_encoding |-> metadata.chunk_key_encoding,
             fill_value |-> metadata.fill_value,
             codecs |-> metadata.codecs,
             attributes |-> metadata.attributes,
             additional_fields |-> metadata.additional_fields,
             storage_transformers |-> metadata.storage_transformers,
             dimension_names |-> metadata.dimension_names,
             parallel_codecs |-> TRUE,
             include_zarrs_metadata |-> TRUE])

\* The record serialised from ZarrsMetadata (description, repository, version).
ZarrsMetadata == "This array was created with zarrs"

\* Array::metadata: the attributes, with the "_zarrs" record inserted if
\* include_zarrs_metadata is set, and the metadata of every component.
metadata(self) ==
    LET attributes == IF self.include_zarrs_metadata
                      THEN map_insert(self.attributes, "_zarrs", ZarrsMetadata)
                      ELSE self.attributes
    IN  ArrayMetadataV3_new(self.shape, self.data_type, RegularGrid(self.chunk_grid),
                            self.chunk_key_encoding, self.fill_value, self.codecs,
                            attributes, self.storage_transformers,
                            self.dimension_names, self.additional_fields)

\* set_shape that also takes the shape for the chunk shape.
set_shape_and_grid(self, shp) == [self EXCEPT !.shape = shp, !.chunk_grid = shp]

\* Array::set_shape
set_shape(self, shp) == [self EXCEPT !.shape = shp]

\* Array::attributes_mut().insert(k, v)
attributes_mut_insert(self, k, v) ==
    [self EXCEPT !.attributes = map_insert(self.attributes, k, v)]

\* Array::set_parallel_codecs
set_parallel_codecs(self, parallel_codecs) ==
    [self EXCEPT !.parallel_codecs = parallel_codecs]

\* Array::set_include_zarrs_metadata
set_include_zarrs_metadata(self, include_zarrs_metadata) ==
    [self EXCEPT !.include_zarrs_metadata = include_zarrs_metadata]

\* The fields of an Array that are not state variables of their own.
Fields(self) ==
    [f \in DOMAIN self \ {"shape", "chunk_grid", "fill_value"} |-> self[f]]

\* The Array: its fields together.
Self ==
    [f \in DOMAIN array.val \cup {"shape", "chunk_grid", "fill_value"} |->
        IF f = "shape" THEN shape
        ELSE IF f = "chunk_grid" THEN chunk_shape
        ELSE IF f = "fill_value" THEN fill_value
        ELSE array.val[f]]

\* The Array becomes `new`.
Becomes(new) ==
    /\ array' = Ok(Fields(new))
    /\ shape' = new.shape
    /\ chunk_shape' = new.chunk_grid
    /\ fill_value' = new.fill_value

\* The keys of a v3 array document that the implementation knows.
RequiredKeys ==
    {"zarr_format", "node_type", "shape", "data_type", "chunk_grid",
     "chunk_key_encoding", "fill_value", "codecs"}

OptionalKeys == {"attributes", "storage_transformers", "dimension_names"}

\* AdditionalField from a JSON value: it must be understood unless the value
\* is an object that holds "must_understand": false.
AdditionalField_from(json) ==
    [field |-> json,
     must_understand |-> ~("must_understand" \in DOMAIN json /\ json.must_understand = FALSE)]

\* serde_json::to_vec(ArrayMetadataV3): the JSON object.  Empty attributes,
\* empty storage transformers and absent dimension names are skipped, the
\* additional fields are flattened into the object.
to_json(m) ==
    LET present == RequiredKeys
                   \cup (IF m.attributes = EmptyMap THEN {} ELSE {"attributes"})
                   \cup (IF m.storage_transformers = <<>> THEN {}
                         ELSE {"storage_transformers"})
                   \cup (IF m.dimension_names.some THEN {"dimension_names"} ELSE {})
    IN  [k \in present \cup DOMAIN m.additional_fields |->
            IF k \notin present THEN m.additional_fields[k].field
            ELSE IF k = "dimension_names" THEN m.dimension_names.val
            ELSE m[k]]

\* serde_json::from_slice::<ArrayMetadata>: a required key that is missing is
\* an error, an optional one takes its default, any other key is an
\* additional field.
from_json(json) ==
    IF ~(RequiredKeys \subseteq DOMAIN json) THEN Err("InvalidMetadata")
    ELSE Ok([ArrayMetadataV3_new(
                json.shape, json.data_type, json.chunk_grid, json.chunk_key_encoding,
                json.fill_value, json.codecs,
                IF "attributes" \in DOMAIN json THEN json.attributes ELSE EmptyMap,
                IF "storage_transformers" \in DOMAIN json
                THEN json.storage_transformers ELSE <<>>,
                IF "dimension_names" \in DOMAIN json
                THEN Some(json.dimension_names) ELSE None,
                [k \in DOMAIN json \ (RequiredKeys \cup OptionalKeys) |->
                    AdditionalField_from(json[k])])
             EXCEPT !.zarr_format = json.zarr_format, !.node_type = json.node_type])

\* Array::new(storage, path): read the metadata key and construct the Array.
Array_new(st, path) ==
    IF ~NodePath_new(path).ok THEN Err("NodePathError")
    ELSE IF ~store_get(st, meta_key(path)).some THEN Err("MissingMetadata")
    ELSE IF ~from_json(store_get(st, meta_key(path)).val).ok
    THEN Err("InvalidMetadata")
    ELSE new_with_metadata(path, from_json(store_get(st, meta_key(path)).val).val)

\* Array::store_metadata: write the document of metadata() under the
\* metadata key of the array.
Array_store_metadata(st, self) ==
    store_set(st, meta_key(self.path), to_json(metadata(self)))

\* No Array has been constructed, or it was dropped.
NoArray == Err("NoArray")

\* The metadata documents handed to new_with_metadata.
Metadatas ==
    { [ArrayMetadataV3_new(shp, dt, RegularGrid(cs),
                           [name |-> "default", configuration |-> [separator |-> "/"]],
                           fv, <<"bytes", "rle">>, EmptyMap, <<>>, dn, af)
         EXCEPT !.zarr_format = zf, !.node_type = nt] :
        zf \in {2, 3}, nt \in {"array", "group"},
        shp \in {<<2, 2>>, <<4>>}, cs \in {<<2, 1>>, <<2>>},
        dt \in {"uint8", "float128"}, fv \in {0, 300},
        dn \in {None, Some(<<"y", "x">>)},
        af \in {EmptyMap,
               [k \in {"x"} |-> AdditionalField_from([v |-> 1])],
               [k \in {"x"} |-> AdditionalField_from([v |-> 1, must_understand |-> FALSE])]} }

\* let array = Array::new_with_metadata(storage, path, metadata); rd keeps
\* the arguments of the call until the next operation.
NewWithMetadata(path, m) ==
    /\ array = NoArray
    /\ IF new_with_metadata(path, m).ok
       THEN Becomes(new_with_metadata(path, m).val)
       ELSE /\ array' = new_with_metadata(path, m)
            /\ UNCHANGED <<shape, chunk_shape, fill_value>>
    /\ rd' = Some([path |-> path, metadata |-> m])
    /\ UNCHANGED <<config, store_empty_chunks, store, chunk_locks, table_owner,
                   locked, calls, tasks>>

\* An operation on the Array that changes only the Array.
Setter(new) ==
    /\ array.ok
    /\ Becomes(new)
    /\ rd' = None
    /\ UNCHANGED <<config, store_empty_chunks, store, chunk_locks, table_owner,
                   locked, calls, tasks>>

SetShape(shp) == Setter(set_shape(Self, shp))

AttributesInsert(k, v) == Setter(attributes_mut_insert(Self, k, v))

SetParallelCodecs(b) == Setter(set_parallel_codecs(Self, b))

SetIncludeZarrsMetadata(b) == Setter(set_include_zarrs_metadata(Self, b))

\* array.store_metadata()
StoreMetadata ==
    /\ array.ok
    /\ store' = Array_store_metadata(store, Self)
    /\ rd' = None
    /\ UNCHANGED <<array, config, shape, chunk_shape, fill_value, store_empty_chunks,
                   chunk_locks, table_owner, locked, calls, tasks>>

\* Array::new(store, path) for the path of the Array: the result is kept in rd.
Open ==
    /\ array.ok
    /\ rd' = Some(Array_new(store, array.val.path))
    /\ UNCHANGED <<array, config, shape, chunk_shape, fill_value, store_empty_chunks,
                   store, chunk_locks, table_owner, locked, calls, tasks>>

\* The Array, or the error of its construction, goes out of scope; the store
\* stays.
Drop ==
    /\ array # NoArray
    /\ array' = NoArray
    /\ rd' = None
    /\ UNCHANGED <<config, shape, chunk_shape, fill_value, store_empty_chunks,
                   store, chunk_locks, table_owner, locked, calls, tasks>>

(***************************************************************************)
(* The global configuration.                                               *)
(***************************************************************************)
\* std::thread::available_parallelism() of the machine.
AvailableParallelism == 2

DefaultChunkConcurrentMinimum == 4

\* Config::default
Config_default ==
    [validate_checksums |-> TRUE,
     store_empty_chunks |-> FALSE,
     codec_concurrent_target |-> AvailableParallelism,
     chunk_concurrent_minimum |-> DefaultChunkConcurrentMinimum,
     experimental_codec_store_metadata_if_encode_only |-> FALSE]

\* The names of the options of Config.
Options == DOMAIN Config_default

\* The global Config: the options held by `config` and store_empty_chunks.
Global == [o \in Options |->
              IF o = "store_empty_chunks" THEN store_empty_chunks ELSE config[o]]

\* OnceLock::get_or_init, whatever the state of the cell: the closure runs
\* on every call.
get_or_init_every_call(once) == IF once = "running" THEN "wait" ELSE "init"

\* OnceLock::get_or_init: the caller that finds the cell empty runs the
\* closure, a caller that finds it being initialised waits, and one that finds
\* it initialised goes on with the value.
get_or_init(once) ==
    IF once = "empty" THEN "init" ELSE IF once = "running" THEN "wait" ELSE "access"

\* Config::set_<option>(value)
Config_set(self, option, value) == [self EXCEPT ![option] = value]

\* Config::<option>()
Config_get(self, option) == self[option]

\* The global Config becomes `new`; `once`, `inits` and `last` are as given.
\* `inits` counts the runs of the initialiser (up to 2) and `last` keeps, for
\* each option, the value last passed to its setter.
ConfigBecomes(new, once, inits, last) ==
    /\ config' = [o \in DOMAIN config |->
                    IF o = "once" THEN once
                    ELSE IF o = "inits" THEN inits
                    ELSE IF o = "last" THEN last
                    ELSE new[o]]
    /\ store_empty_chunks' = new.store_empty_chunks

\* The threads that use the global Config.
Threads == {1, 2}

\* A thread calls global_config() ("read") or global_config_mut() ("write").
ConfigCall(th, form) ==
    /\ \A t \in tasks : t.thread # th
    /\ tasks' = tasks \cup {[thread |-> th, form |-> form, pc |-> "once"]}
    /\ UNCHANGED <<array, config, shape, chunk_shape, fill_value, store_empty_chunks,
                   store, chunk_locks, table_owner, locked, calls, rd>>

\* CONFIG.get_or_init(..): the thread enters the cell.
GetOrInit(t) ==
    /\ t.pc = "once"
    /\ get_or_init(config.once) # "wait"
    /\ tasks' = (tasks \ {t}) \cup {[t EXCEPT !.pc = get_or_init(config.once)]}
    /\ config' = IF get_or_init(config.once) = "init"
                 THEN [config EXCEPT !.once = "running"] ELSE config
    /\ UNCHANGED <<array, shape, chunk_shape, fill_value, store_empty_chunks,
                   store, chunk_locks, table_owner, locked, calls, rd>>

\* || RwLock::new(Config::default()): the closure of get_or_init.
Initialise(t) ==
    /\ t.pc = "init"
    /\ ConfigBecomes(Config_default, "done", Min2(config.inits + 1, 2), config.last)
    /\ tasks' = (tasks \ {t}) \cup {[t EXCEPT !.pc = "access"]}
    /\ UNCHANGED <<array, shape, chunk_shape, fill_value,
                   store, chunk_locks, table_owner, locked, calls, rd>>

\* global_config().<option>(): the value read is kept in rd.
Get(t, option) ==
    /\ t.pc = "access" /\ t.form = "read"
    /\ rd' = Some([option |-> option, value |-> Config_get(Global, option)])
    /\ tasks' = tasks \ {t}
    /\ UNCHANGED <<array, config, shape, chunk_shape, fill_value, store_empty_chunks,
                   store, chunk_locks, table_owner, locked, calls>>

\* global_config_mut().set_<option>(value)
Set(t, option, value) ==
    /\ t.pc = "access" /\ t.form = "write"
    /\ ConfigBecomes(Config_set(Global, option, value), config.once, config.inits,
                     [config.last EXCEPT ![option] = value])
    /\ rd' = None
    /\ tasks' = tasks \ {t}
    /\ UNCHANGED <<array, shape, chunk_shape, fill_value,
                   store, chunk_locks, table_owner, locked, calls>>

(***************************************************************************)
(* Initial states and specifications.                                      *)
(***************************************************************************)
\* A store in which every chunk of the array holds the byte v.
RECURSIVE StoreAll(_, _)
StoreAll(chunks, bytes) ==
    IF chunks = {} THEN EmptyStore
    ELSE LET c == CHOOSE x \in chunks : TRUE
         IN  store_chunk(StoreAll(chunks \ {c}, bytes), ArrayPath, c, encode(bytes))

\* The global Config after its first use, with every option at its default.
InitialisedConfig ==
    [o \in (Options \ {"store_empty_chunks"}) \cup {"once", "inits", "last"} |->
        IF o = "once" THEN "done"
        ELSE IF o = "inits" THEN 1
        ELSE IF o = "last" THEN Config_default
        ELSE Config_default[o]]

InitArray(shp, cs, fv) ==
    /\ array = Ok(Fields(new_with_metadata(ArrayPath, BuilderMetadata(shp, cs, fv)).val))
    /\ config = InitialisedConfig
    /\ shape = shp
    /\ chunk_shape = cs
    /\ fill_value = fv
    /\ store_empty_chunks = FALSE
    /\ chunk_locks = [tb \in Tables |-> [c \in {} |-> 0]]
    /\ table_owner = [tb \in Tables |-> NoTask]
    /\ locked = {}
    /\ calls = <<>>
    /\ tasks = [t \in {} |-> 0]
    /\ rd = None

\* The initial content of an existing array: a value no call writes.
InitVal == MaxCalls + 1

\* A 2x2 array of 2x1 chunks with fill value 0 of which the first chunk has
\* been written and the second has not.
Init ==
    /\ InitArray(<<2, 2>>, <<2, 1>>, 0)
    /\ store = StoreAll({<<0, 0>>}, Repeat(InitVal, ChunkSize))

\* The next call writes the fill value or a value of its own.
CallVals == {fill_value, Len(calls) + 1}

\* Threads sharing one Array instance call the blocking store operations.
Next ==
    \/ \E s \in SubsetsOf(shape), v \in CallVals :
           /\ Len(calls) < MaxCalls
           /\ StoreArraySubset(1, "sync", s, Repeat(v, num_elements(s)))
    \/ \E c \in AllChunks, sub \in SubsetsOf(chunk_shape), v \in CallVals :
           /\ Len(calls) < MaxCalls
           /\ StoreChunkSubset(1, "sync", c, sub, Repeat(v, num_elements(sub)))
    \/ \E c \in AllChunks, v \in CallVals :
           /\ Len(calls) < MaxCalls
           /\ StoreChunk(1, "sync", c, Repeat(v, ChunkSize))
    \/ \E t \in DOMAIN tasks : LockTable(t)
    \/ \E t \in DOMAIN tasks : Entry(t)
    \/ \E t \in DOMAIN tasks : Acquire(t)
    \/ \E t \in DOMAIN tasks : Read(t, TRUE)
    \/ \E t \in DOMAIN tasks : Write(t, "none")
    \/ \E t \in DOMAIN tasks : Release(t)

Spec == Init /\ [][Next]_vars

\* A blob that does not decode to a chunk: a truncated one.
CorruptBlob == encode(Repeat(InitVal, ChunkSize - 1))

\* The first chunk has been written, and may have been damaged since.
InitFaults ==
    /\ InitArray(<<2, 2>>, <<2, 1>>, 0)
    /\ store \in {StoreAll({<<0, 0>>}, Repeat(InitVal, ChunkSize)),
                   store_set(EmptyStore, data_key(ArrayPath, <<0, 0>>), CorruptBlob)}

\* Tasks sharing one Array instance call the async store_chunk_subset; the
\* store and the codecs may fail and a call may be cancelled.
NextFaults ==
    \/ \E c \in AllChunks, sub \in SubsetsOf(chunk_shape), v \in CallVals :
           /\ Len(calls) < MaxCalls
           /\ StoreChunkSubset(1, "async", c, sub, Repeat(v, num_elements(sub)))
    \/ \E t \in DOMAIN tasks : LockTable(t)
    \/ \E t \in DOMAIN tasks : Entry(t)
    \/ \E t \in DOMAIN tasks : Acquire(t)
    \/ \E t \in DOMAIN tasks, io_ok \in BOOLEAN : Read(t, io_ok)
    \/ \E t \in DOMAIN tasks, fault \in {"none", "codec", "io"} : Write(t, fault)
    \/ \E t \in DOMAIN tasks : Release(t)
    \/ \E k \in 1..Len(calls) : Cancel(k)

SpecFaults == InitFaults /\ [][NextFaults]_vars

\* All byte strings of n elements.
BytesOf(n) == [1..n -> Vals]

\* A 2x2 array of 2x1 chunks or a 1x3 array of 1x2 chunks, whose last chunk
\* extends over the end of the array.
InitSeq ==
    /\ \E g \in {<<<<2, 2>>, <<2, 1>>>>, <<<<1, 3>>, <<1, 2>>>>} : InitArray(g[1], g[2], 0)
    /\ store \in {StoreAll({<<0, 0>>}, Repeat(InitVal, ChunkSize)),
                   store_set(EmptyStore, data_key(ArrayPath, <<0, 0>>), CorruptBlob)}

\* One caller: every operation runs alone, on any subset and any bytes.
NextSeq ==
    \/ \E s \in SubsetsOf(shape) : \E bytes \in BytesOf(num_elements(s)) :
           /\ calls = <<>>
           /\ StoreArraySubset(1, "sync", s, bytes)
    \/ \E c \in AllChunks, bytes \in BytesOf(ChunkSize) :
           /\ calls = <<>>
           /\ StoreChunk(1, "sync", c, bytes)
    \/ \E t \in DOMAIN tasks : LockTable(t)
    \/ \E t \in DOMAIN tasks : Entry(t)
    \/ \E t \in DOMAIN tasks : Acquire(t)
    \/ \E t \in DOMAIN tasks : Read(t, TRUE)
    \/ \E t \in DOMAIN tasks : Write(t, "none")
    \/ \E t \in DOMAIN tasks : Release(t)
    \/ \E c \in AllChunks, io_ok \in BOOLEAN : calls = <<>> /\ RetrieveChunk(c, io_ok)
    \/ \E b \in BOOLEAN : b # store_empty_chunks /\ SetStoreEmptyChunks(b)
    \/ Forget

SpecSeq == InitSeq /\ [][NextSeq]_vars

\* The example of the Array documentation: a 1x6 array [A B C | D E F] of
\* 1x3 chunks with fill value 9; subset0 (B C D) stores 0, subset1 (C D E)
\* stores 1 and subset2 (C) stores 2.
ExampleFill == 9

ExampleValue0 == 0

ExampleValue1 == 1

ExampleValue2 == 2

ExampleSubsets ==
    <<[subset |-> ArraySubset(<<0, 1>>, <<1, 3>>), value |-> ExampleValue0],
      [subset |-> ArraySubset(<<0, 2>>, <<1, 3>>), value |-> ExampleValue1],
      [subset |-> ArraySubset(<<0, 2>>, <<1, 1>>), value |-> ExampleValue2]>>

InitExample ==
    /\ InitArray(<<1, 6>>, <<1, 3>>, ExampleFill)
    /\ store = EmptyStore

\* The three subsets are written in parallel through one Array instance.  A
\* call that has started and not yet taken a step has had no effect, so the
\* calls start in the order of their numbers without loss of schedules.
NextExample ==
    \/ \E i \in 1..Len(ExampleSubsets) :
           /\ Len(calls) = i - 1
           /\ StoreArraySubset(1, "sync", ExampleSubsets[i].subset,
                                Repeat(ExampleSubsets[i].value,
                                       num_elements(ExampleSubsets[i].subset)))
    \/ \E t \in DOMAIN tasks : LockTable(t)
    \/ \E t \in DOMAIN tasks : Entry(t)
    \/ \E t \in DOMAIN tasks : Acquire(t)
    \/ \E t \in DOMAIN tasks : Read(t, TRUE)
    \/ \E t \in DOMAIN tasks : Write(t, "none")
    \/ \E t \in DOMAIN tasks : Release(t)

SpecExample == InitExample /\ [][NextExample]_vars

(***************************************************************************)
(* Properties of concurrent writers on one Array instance (Spec).          *)
(***************************************************************************)
\* A store_chunk_subset task between taking the chunk lock and dropping it.
InLockedSection(t) ==
    tasks[t].kind = "subset" /\ tasks[t].pc \in {"read", "write", "release"}

AllReturned == Len(calls) > 0 /\ \A k \in 1..Len(calls) : calls[k].state = "returned"

\* The decoded elements of the whole array held by store st.
Content(st) == Array_retrieve_array_subset(st, WholeArray)

\* The decoded elements of chunk c held by store st.
ChunkContent(st, c) == Array_retrieve_chunk(st, c, TRUE)

\* The store the first call found.
InitialStore == calls[1].before

\* C1: on one Array instance, at most one store_chunk_subset operation at a
\* time is inside the locked read-modify-write section of a chunk.
C1_MutualExclusion ==
    \A t \in DOMAIN tasks, u \in DOMAIN tasks :
        (t # u /\ t[2] = u[2] /\ Table(t) = Table(u) /\ InLockedSection(t))
            => ~InLockedSection(u)

\* One operation has read the chunk and not yet written it while another
\* on the same chunk waits for the chunk lock.
C1_Witness ==
    \E t \in DOMAIN tasks, u \in DOMAIN tasks :
        /\ t # u /\ t[2] = u[2]
        /\ tasks[t].kind = "subset" /\ tasks[t].pc = "write"
        /\ tasks[u].kind = "subset" /\ tasks[u].pc = "acquire"
        /\ MutexOf(u) = MutexOf(t)

\* The calls are all store_array_subset and their subsets pairwise disjoint.
DisjointArraySubsetCalls ==
    /\ \A k \in 1..Len(calls) : calls[k].op = "store_array_subset"
    /\ \A j \in 1..Len(calls), k \in 1..Len(calls) :
           j # k => Disjoint(calls[j].subset, calls[k].subset)

\* C2: after store_array_subset calls with pairwise disjoint subsets have run
\* in parallel, each subset holds the values its call wrote and every element
\* outside the subsets holds what it held before.
C2_DisjointSubsetsAllPresent ==
    (AllReturned /\ DisjointArraySubsetCalls) =>
        /\ Content(store).ok
        /\ \A k \in 1..Len(calls) :
               /\ calls[k].result = "Ok"
               /\ extract_bytes(calls[k].subset, Content(store).val, shape) = calls[k].bytes
        /\ \A idx \in Indices(WholeArray) :
               (\A k \in 1..Len(calls) : ~contains(calls[k].subset, idx))
                   => Content(store).val[ravel_indices(idx, shape) + 1]
                          = Content(InitialStore).val[ravel_indices(idx, shape) + 1]

\* Two overlapping calls wrote different values to disjoint parts of one
\* chunk that held data before.
C2_Witness ==
    /\ AllReturned /\ DisjointArraySubsetCalls /\ Len(calls) = 2
    /\ ~calls[1].alone
    /\ calls[1].bytes # calls[2].bytes
    /\ \E c \in AllChunks :
           /\ contains(chunks_in_array_subset(calls[1].subset, chunk_shape), c)
           /\ contains(chunks_in_array_subset(calls[2].subset, chunk_shape), c)
           /\ size_key(InitialStore, data_key(ArrayPath, c)).some

\* The content of chunk c after call k has been applied to chunk content b.
ApplyCall(b, k, c) ==
    IF calls[k].op = "store_chunk" THEN calls[k].bytes
    ELSE update_bytes(b, chunk_shape,
                      relative_to(calls[k].subset, grid_subset(c, chunk_shape).start),
                      calls[k].bytes)

\* The content of chunk c after the calls of `order` have been applied one
\* after the other to chunk content b.
RECURSIVE ApplyInOrder(_, _, _)
ApplyInOrder(b, order, c) ==
    IF order = <<>> THEN b
    ELSE ApplyInOrder(ApplyCall(b, Head(order), c), Tail(order), c)

\* The orders in which the calls can be executed one after the other.
Orders ==
    {o \in [1..Len(calls) -> 1..Len(calls)] :
        \A i \in 1..Len(calls), j \in 1..Len(calls) : o[i] = o[j] => i = j}

\* The content of chunk c is what one sequential execution of the calls
\* leaves.
SerialOutcome(c) ==
    /\ ChunkContent(store, c).ok
    /\ \E o \in Orders :
           ChunkContent(store, c).val
               = ApplyInOrder(ChunkContent(InitialStore, c).val, o, c)

\* All calls are of the operations in ops and on the same chunk c.
CallsOn(c, ops) ==
    \A k \in 1..Len(calls) : calls[k].op \in ops /\ calls[k].chunk = c

\* C3: when store_chunk_subset calls on the same chunk, overlapping or not,
\* have run in parallel, the chunk holds what the calls executed one after
\* the other in some order leave.
C3_SubsetWritesSerialOutcome ==
    \A c \in AllChunks :
        (AllReturned /\ CallsOn(c, {"store_chunk_subset"})) => SerialOutcome(c)

\* Two overlapping store_chunk_subset calls wrote different values to
\* overlapping, unequal parts of one chunk.
C3_Witness ==
    /\ AllReturned /\ Len(calls) = 2 /\ ~calls[1].alone
    /\ \E c \in AllChunks : CallsOn(c, {"store_chunk_subset"})
    /\ ~Disjoint(calls[1].subset, calls[2].subset)
    /\ calls[1].subset # calls[2].subset
    /\ calls[1].bytes[1] # calls[2].bytes[1]
    /\ calls[1].bytes[1] # fill_value /\ calls[2].bytes[1] # fill_value

\* C4: when store_chunk and store_chunk_subset calls on the same chunk, in
\* any combination, have run in parallel, the chunk holds what the calls
\* executed one after the other in some order leave.
C4_AnyWritesSerialOutcome ==
    \A c \in AllChunks :
        (AllReturned /\ CallsOn(c, {"store_chunk", "store_chunk_subset"}))
            => SerialOutcome(c)

(***************************************************************************)
(* Properties of store_chunk_subset under failures (SpecFaults).           *)
(***************************************************************************)
\* C5: the chunk lock is released on every exit path of store_chunk_subset
\* (success, an error of the read, decode, encode or store step, async
\* cancellation): a chunk mutex is locked only while a store_chunk_subset on
\* that chunk is inside its locked section, so an operation waiting for a
\* chunk no operation is working on can take the lock.
C5_LockReleasedOnEveryExit ==
    /\ \A m \in locked :
           \E t \in DOMAIN tasks : InLockedSection(t) /\ MutexOf(t) = m
    /\ \A u \in DOMAIN tasks :
           (/\ tasks[u].pc = "acquire"
            /\ ~\E t \in DOMAIN tasks :
                   t[2] = u[2] /\ Table(t) = Table(u) /\ InLockedSection(t))
               => ENABLED Acquire(u)

\* A call was cancelled while it held the lock of a chunk, and a later call
\* holds that lock now.
C5_Witness ==
    \E j \in 1..Len(calls), u \in DOMAIN tasks :
        /\ calls[j].state = "cancelled"
        /\ InLockedSection(u) /\ u[1] # j
        /\ MutexOf(u) \in calls[j].unwound

\* C6: a store_chunk_subset in which a step failed returns an error, and one
\* that returned an error or was cancelled has not changed the store: the
\* store holds what it held before the call, and every value in it is an
\* initial one or a completely encoded chunk.
C6_FailedSubsetLeavesStore ==
    \A k \in 1..Len(calls) :
        (calls[k].op = "store_chunk_subset" /\ calls[k].state # "running") =>
            /\ calls[k].faulted => calls[k].result # "Ok"
            /\ (calls[k].result # "Ok" \/ calls[k].state = "cancelled") =>
                   /\ ~calls[k].wrote
                   /\ (calls[k].alone /\ k = Len(calls)) => store = calls[k].before
            /\ \A key \in DOMAIN store :
                   \/ key \in DOMAIN InitialStore /\ store[key] = InitialStore[key]
                   \/ decode(store[key], ChunkSize).ok

\* A store_chunk_subset on a chunk that held data failed in the store or in
\* the encoding after it had read the chunk, and has returned the error.
C6_Witness ==
    \E k \in 1..Len(calls) :
        /\ calls[k].op = "store_chunk_subset" /\ calls[k].state = "returned"
        /\ calls[k].result \in {"StorageError", "CodecError"}
        /\ calls[k].alone /\ k = Len(calls)
        /\ size_key(store, data_key(ArrayPath, calls[k].chunk)).some
        /\ decode(store[data_key(ArrayPath, calls[k].chunk)], ChunkSize).ok

(***************************************************************************)
(* Properties of one operation run alone (SpecSeq).                        *)
(***************************************************************************)
\* Call k has returned, ran alone and no call has started since.
LastAlone(k) ==
    k = Len(calls) /\ calls[k].state = "returned" /\ calls[k].alone

\* C7: after store_array_subset(s, v) has returned Ok, retrieve_array_subset(s)
\* returns v and retrieve_array_subset(s') of every subset s' disjoint from s
\* returns what it returned before the call, whatever chunks s straddles.
C7_RegionRoundTrip ==
    \A k \in 1..Len(calls) :
        (/\ calls[k].op = "store_array_subset"
         /\ LastAlone(k) /\ calls[k].result = "Ok") =>
            /\ Array_retrieve_array_subset(store, calls[k].subset) = Ok(calls[k].bytes)
            /\ \A s \in SubsetsOf(shape) :
                   Disjoint(s, calls[k].subset) =>
                       Array_retrieve_array_subset(store, s)
                           = Array_retrieve_array_subset(calls[k].before, s)

\* A store_array_subset of unequal values has returned Ok whose subset
\* straddles two chunks, covers each only partly, and one of the chunks
\* held data before.
C7_Witness ==
    \E k \in 1..Len(calls) :
        /\ calls[k].op = "store_array_subset"
        /\ LastAlone(k) /\ calls[k].result = "Ok"
        /\ Cardinality(Indices(chunks_in_array_subset(calls[k].subset, chunk_shape))) = 2
        /\ \A c \in Indices(chunks_in_array_subset(calls[k].subset, chunk_shape)) :
               ~IsWholeChunk(relative_to(overlap(calls[k].subset, grid_subset(c, chunk_shape)),
                                         grid_subset(c, chunk_shape).start))
        /\ calls[k].bytes[1] # calls[k].bytes[2]
        /\ size_key(calls[k].before, data_key(ArrayPath, <<0, 0>>)).some
        /\ Array_retrieve_array_subset(calls[k].before, WholeArray).ok

\* C8: with store_empty_chunks = false, after store_chunk(c, bytes) with bytes
\* the fill value over the whole chunk, the key of the chunk is absent
\* (size_key gives None), whether or not it held a value before, and
\* retrieve_chunk(c) returns the fill-valued bytes.
C8_EmptyChunkElided ==
    \A k \in 1..Len(calls) :
        (/\ calls[k].op = "store_chunk" /\ LastAlone(k)
         /\ ~calls[k].store_empty_chunks /\ calls[k].bytes = FillBytes) =>
            /\ calls[k].result = "Ok"
            /\ size_key(store, data_key(ArrayPath, calls[k].chunk)) = None
            /\ Array_retrieve_chunk(store, calls[k].chunk, TRUE) = Ok(FillBytes)

\* store_chunk of fill values has returned for a chunk that held a value.
C8_Witness ==
    \E k \in 1..Len(calls) :
        /\ calls[k].op = "store_chunk" /\ LastAlone(k)
        /\ ~calls[k].store_empty_chunks /\ calls[k].bytes = FillBytes
        /\ size_key(calls[k].before, data_key(ArrayPath, calls[k].chunk)).some

\* C9: a read of a chunk whose key is missing gives the fill value for every
\* element; a read whose store access fails, or whose key holds a value that
\* does not decode, gives an error; a value that decodes is returned decoded.
C9_MissingIsFillErrorsSurface ==
    rd.some =>
        /\ (rd.val.io_ok /\ ~rd.val.blob.some) => rd.val.result = Ok(FillBytes)
        /\ ~rd.val.io_ok => ~rd.val.result.ok
        /\ (rd.val.io_ok /\ rd.val.blob.some) =>
               rd.val.result = decode(rd.val.blob.val, ChunkSize)
        /\ (rd.val.blob.some /\ ~decode(rd.val.blob.val, ChunkSize).ok)
               => ~rd.val.result.ok

\* The store answered a read with a value that does not decode; the read
\* returned an error.
C9_Witness ==
    /\ rd.some /\ rd.val.io_ok /\ rd.val.blob.some
    /\ ~decode(rd.val.blob.val, ChunkSize).ok
    /\ ~rd.val.result.ok

(***************************************************************************)
(* The documented example of overlapping subsets (SpecExample).            *)
(***************************************************************************)
\* C10: when subset0 (B C D := 0), subset1 (C D E := 1) and subset2 (C := 2)
\* have been written in parallel to the 1x6 array [A B C | D E F] of fill
\* value 9, A = 9, B = 0, C is 0, 1 or 2, D is 0 or 1, E = 1 and F = 9.
C10_ExampleOutcomes ==
    (AllReturned /\ Len(calls) = Len(ExampleSubsets)) =>
        /\ Content(store).ok
        /\ Content(store).val[1] = ExampleFill
        /\ Content(store).val[2] = ExampleValue0
        /\ Content(store).val[3] \in {ExampleValue0, ExampleValue1, ExampleValue2}
        /\ Content(store).val[4] \in {ExampleValue0, ExampleValue1}
        /\ Content(store).val[5] = ExampleValue1
        /\ Content(store).val[6] = ExampleFill

\* The three calls have returned; the first chunk was last written by
\* subset1 and the second by subset0.
C10_Witness ==
    /\ AllReturned /\ Len(calls) = Len(ExampleSubsets)
    /\ \A k \in 1..Len(calls) : ~calls[k].alone
    /\ Content(store).val[3] = ExampleValue1
    /\ Content(store).val[4] = ExampleValue0

(***************************************************************************)
(* Two Array instances on the same store and path (SpecInstances).         *)
(***************************************************************************)
\* Threads call store_chunk_subset through either of two Array instances
\* that reference the same store and path.
NextInstances ==
    \/ \E a \in ArrayIds, c \in AllChunks, sub \in SubsetsOf(chunk_shape), v \in CallVals :
           /\ Len(calls) < MaxCalls
           /\ StoreChunkSubset(a, "sync", c, sub, Repeat(v, num_elements(sub)))
    \/ \E t \in DOMAIN tasks : LockTable(t)
    \/ \E t \in DOMAIN tasks : Entry(t)
    \/ \E t \in DOMAIN tasks : Acquire(t)
    \/ \E t \in DOMAIN tasks : Read(t, TRUE)
    \/ \E t \in DOMAIN tasks : Write(t, "none")
    \/ \E t \in DOMAIN tasks : Release(t)

SpecInstances == Init /\ [][NextInstances]_vars

\* C11: chunk locks are per Array instance: operations inside the locked
\* section of the same chunk belong to different instances, and an operation
\* waiting for the lock of a chunk can take it whenever no operation of its
\* own instance is inside the locked section of that chunk, whatever the
\* other instance does.
C11_LocksPerInstance ==
    /\ \A t \in DOMAIN tasks, u \in DOMAIN tasks :
           (t # u /\ t[2] = u[2] /\ InLockedSection(t) /\ InLockedSection(u))
               => calls[t[1]].array # calls[u[1]].array
    /\ \A u \in DOMAIN tasks :
           (/\ tasks[u].pc = "acquire"
            /\ ~\E t \in DOMAIN tasks :
                   /\ t[2] = u[2] /\ InLockedSection(t)
                   /\ calls[t[1]].array = calls[u[1]].array)
               => ENABLED Acquire(u)

\* Two instances have written disjoint parts of one chunk, both calls have
\* returned Ok, and a part written by one of them holds what it held before.
C11_Witness ==
    /\ AllReturned /\ Len(calls) = 2
    /\ calls[1].array # calls[2].array
    /\ calls[1].chunk = calls[2].chunk
    /\ Disjoint(calls[1].subset, calls[2].subset)
    /\ calls[1].result = "Ok" /\ calls[2].result = "Ok"
    /\ \E k \in 1..2 :
           /\ extract_bytes(calls[k].subset, Content(store).val, shape) # calls[k].bytes
           /\ extract_bytes(calls[k].subset, Content(store).val, shape)
                  = extract_bytes(calls[k].subset, Content(InitialStore).val, shape)

(***************************************************************************)
(* The life of an Array and its metadata (SpecMeta).                       *)
(***************************************************************************)
InitMeta ==
    /\ array = NoArray
    /\ config = InitialisedConfig
    /\ shape = <<>>
    /\ chunk_shape = <<>>
    /\ fill_value = 0
    /\ store_empty_chunks = FALSE
    /\ store = EmptyStore
    /\ chunk_locks = [tb \in Tables |-> [c \in {} |-> 0]]
    /\ table_owner = [tb \in Tables |-> NoTask]
    /\ locked = {}
    /\ calls = <<>>
    /\ tasks = {}
    /\ rd = None

NextMeta ==
    \/ \E m \in Metadatas : NewWithMetadata(ArrayPath, m)
    \/ \E shp \in {<<4, 4>>, <<4>>} : SetShape(shp)
    \/ AttributesInsert("test", "apple")
    \/ \E b \in BOOLEAN : SetParallelCodecs(b)
    \/ \E b \in BOOLEAN : SetIncludeZarrsMetadata(b)
    \/ StoreMetadata
    \/ Open
    \/ Drop

SpecMeta == InitMeta /\ [][NextMeta]_vars

\* C12: in every reachable state of an Array the rank of its shape is the
\* dimensionality of its chunk grid and, if it has dimension names, their
\* number.
C12_RankInvariant ==
    array.ok =>
        /\ Len(shape) = Len(chunk_shape)
        /\ array.val.dimension_names.some =>
               Len(array.val.dimension_names.val) = Len(shape)

\* The faults of a metadata document that C13 lists.
ListedFault(m) ==
    \/ m.zarr_format # 3
    \/ m.node_type # "array"
    \/ \E k \in DOMAIN m.additional_fields :
           ~("must_understand" \in DOMAIN m.additional_fields[k].field
             /\ m.additional_fields[k].field.must_understand = FALSE)
    \/ Len(m.chunk_grid.configuration.chunk_shape) # Len(m.shape)
    \/ (m.data_type = "uint8" /\ m.fill_value \notin 0..255)
    \/ (m.dimension_names.some /\ Len(m.dimension_names.val) # Len(m.shape))

\* rd holds the arguments of a construction that has just returned.
Constructed == rd.some /\ "metadata" \in DOMAIN rd.val

\* C13: new_with_metadata returns an error and constructs no Array whenever
\* the document has one of the listed faults (format not 3, node type not
\* "array", an additional field that must be understood, grid dimensionality
\* or number of dimension names different from the rank, fill value invalid
\* for the data type); it succeeds only when none of them holds, and it never
\* writes to the store.
C13_ConstructionValidates ==
    /\ [](Constructed =>
            /\ ListedFault(rd.val.metadata) => ~array.ok
            /\ array.ok => ~ListedFault(rd.val.metadata))
    /\ [][array = NoArray => store' = store]_vars

\* A document whose only fault is the number of its dimension names, with an
\* additional field that need not be understood, was refused while the store
\* held a document.
C13_Witness ==
    /\ Constructed
    /\ store # EmptyStore
    /\ ~array.ok
    /\ array.err = "InvalidDimensionNames"
    /\ rd.val.metadata.additional_fields # EmptyMap

\* rd holds the result of Array::new for the path of the Array.
Opened == rd.some /\ "ok" \in DOMAIN rd.val

\* C14: after store_metadata, an Array opened from the same store and path
\* returns a metadata() equal to the metadata() of the original Array, the
\* injected "_zarrs" attribute included.
C14_MetadataRoundTrip ==
    ( /\ array.ok
      /\ Opened
      /\ store_get(store, meta_key(array.val.path)) = Some(to_json(metadata(Self))) )
    => /\ rd.val.ok
       /\ metadata(rd.val.val) = metadata(Self)

\* C15: after construction only the shape, the attributes and the two flags
\* of an Array change: set_shape(s) makes shape() return s and changes
\* nothing else, an insertion through attributes_mut() is seen by
\* attributes() and changes nothing else, and no operation changes the data
\* type, the chunk grid, the key encoding, the fill value, the codecs, the
\* storage transformers or the path.
C15_OnlyShapeAttributesFlagsChange ==
    [][ (array.ok /\ array'.ok) =>
          /\ chunk_shape' = chunk_shape
          /\ fill_value' = fill_value
          /\ \A f \in DOMAIN array.val \ {"attributes", "parallel_codecs",
                                          "include_zarrs_metadata"} :
                 array'.val[f] = array.val[f]
          /\ \A shp \in {<<4, 4>>, <<4>>} :
                 SetShape(shp) => shape' = shp /\ array' = array
          /\ AttributesInsert("test", "apple") =>
                 /\ "test" \in DOMAIN array'.val.attributes
                 /\ array'.val.attributes["test"] = "apple"
                 /\ \A k \in DOMAIN array.val.attributes \ {"test"} :
                        array'.val.attributes[k] = array.val.attributes[k]
                 /\ DOMAIN array'.val.attributes = DOMAIN array.val.attributes \cup {"test"}
                 /\ shape' = shape
                 /\ array'.val.parallel_codecs = array.val.parallel_codecs
                 /\ array'.val.include_zarrs_metadata = array.val.include_zarrs_metadata
      ]_vars

\* The shape was set to another one of the same rank and an attribute was
\* inserted, as in the test array_set_shape_and_attributes.
C15_Witness ==
    /\ array.ok
    /\ shape = <<4, 4>>
    /\ chunk_shape = <<2, 1>>
    /\ "test" \in DOMAIN array.val.attributes
    /\ array.val.attributes["test"] = "apple"
    /\ array.val.dimension_names.some

(***************************************************************************)
(* Threads using the global configuration (SpecConfig).                    *)
(***************************************************************************)
\* The values passed to the setters.
OptionValues ==
    [o \in Options |->
        IF o = "codec_concurrent_target" THEN {1, AvailableParallelism}
        ELSE IF o = "chunk_concurrent_minimum" THEN {1, DefaultChunkConcurrentMinimum}
        ELSE BOOLEAN]

\* No thread has used the configuration: the cell is empty, and what its
\* memory holds is of no account (here: no option has its default).
InitConfig ==
    /\ array = NoArray
    /\ config = [InitialisedConfig EXCEPT
                    !.once = "empty", !.inits = 0,
                    !.validate_checksums = FALSE,
                    !.codec_concurrent_target = 1,
                    !.chunk_concurrent_minimum = 1,
                    !.experimental_codec_store_metadata_if_encode_only = TRUE]
    /\ shape = <<>>
    /\ chunk_shape = <<>>
    /\ fill_value = 0
    /\ store_empty_chunks = TRUE
    /\ store = EmptyStore
    /\ chunk_locks = [tb \in Tables |-> [c \in {} |-> 0]]
    /\ table_owner = [tb \in Tables |-> NoTask]
    /\ locked = {}
    /\ calls = <<>>
    /\ tasks = {}
    /\ rd = None

NextConfig ==
    \/ \E th \in Threads, form \in {"read", "write"} : ConfigCall(th, form)
    \/ \E t \in tasks : GetOrInit(t)
    \/ \E t \in tasks : Initialise(t)
    \/ \E t \in tasks, o \in Options : Get(t, o)
    \/ \E t \in tasks, o \in Options : \E v \in OptionValues[o] : Set(t, o, v)

SpecConfig == InitConfig /\ [][NextConfig]_vars

\* C16: the global configuration is one record, initialised exactly once, by
\* the first call of global_config or global_config_mut of any thread, to
\* validate_checksums = true, store_empty_chunks = false,
\* chunk_concurrent_minimum = 4 and
\* experimental_codec_store_metadata_if_encode_only = false; afterwards each
\* getter returns the value last passed to the matching setter (the default
\* if there was none), and a setter changes no other option.
C16_GlobalConfig ==
    /\ [](/\ config.inits <= 1
          /\ config.once = "done" <=> config.inits = 1
          /\ \A t \in tasks : t.pc = "access" => config.once = "done"
          /\ config.once = "done" => \A o \in Options : Config_get(Global, o) = config.last[o]
          /\ rd.some => rd.val.value = config.last[rd.val.option])
    /\ [][/\ (config.once # "done" /\ config'.once = "done") =>
               /\ Global'.validate_checksums = TRUE
               /\ Global'.store_empty_chunks = FALSE
               /\ Global'.chunk_concurrent_minimum = 4
               /\ Global'.experimental_codec_store_metadata_if_encode_only = FALSE
          /\ config.once = "done" =>
               /\ config'.once = "done"
               /\ Cardinality({o \in Options : Global'[o] # Global[o]}) <= 1
               /\ \A o \in Options :
                      Global'[o] # Global[o] => config'.last[o] # config.last[o]
         ]_vars

\* The cell is initialised, validate_checksums was set to false and a getter
\* then read false, while every other option has its default, as in the test
\* config_validate_checksums.
C16_Witness ==
    /\ config.once = "done"
    /\ rd.some
    /\ rd.val.option = "validate_checksums"
    /\ rd.val.value = FALSE
    /\ \A o \in Options \ {"validate_checksums"} : Global[o] = Config_default[o]
    /\ tasks = {}

(***************************************************************************)
(* The provided methods of the storage traits, as functions of the store.  *)
(***************************************************************************)
\* The write always resizes the value to the end of the range.
PatchBytes_resizes_always(bytes, start, value) ==
    [i \in 1..(start + Len(value)) |->
        IF i > start THEN value[i - start]
        ELSE IF i <= Len(bytes) THEN bytes[i] ELSE 0]

\* bytes.resize(end, 0) if bytes is shorter than end, then
\* bytes[start..end].copy_from_slice(value)
PatchBytes(bytes, start, value) ==
    LET end     == start + Len(value)
        resized == IF Len(bytes) < end
                   THEN bytes \o Repeat(0, end - Len(bytes)) ELSE bytes
    IN  [i \in 1..Len(resized) |->
            IF start < i /\ i <= end THEN value[i - start] ELSE resized[i]]

\* for key_start_value in group { .. }: the values of a group, in order.
RECURSIVE PatchGroup(_, _)
PatchGroup(bytes, group) ==
    IF group = <<>> THEN bytes
    ELSE PatchGroup(PatchBytes(bytes, Head(group).start, Head(group).value), Tail(group))

\* WritableStorageTraits::set_partial_values: for each group of consecutive
\* entries of one key, get the key (empty if missing), patch, set the key.
RECURSIVE set_partial_values(_, _)
set_partial_values(st, key_start_values) ==
    IF key_start_values = <<>> THEN st
    ELSE LET key   == Head(key_start_values).key
             n     == CHOOSE n \in 1..Len(key_start_values) :
                          /\ \A i \in 1..n : key_start_values[i].key = key
                          /\ n < Len(key_start_values) => key_start_values[n + 1].key # key
             bytes == IF store_get(st, key).some THEN store_get(st, key).val ELSE <<>>
         IN  set_partial_values(
                 store_set(st, key, PatchGroup(bytes, SubSeq(key_start_values, 1, n))),
                 SubSeq(key_start_values, n + 1, Len(key_start_values)))

\* ReadableStorageTraits::get_partial_values_key of a store that holds its
\* values in memory: None for a missing key, an error for a range that is
\* not within the value, else the bytes of each range.
get_partial_values_key(st, key, byte_ranges) ==
    IF key \notin DOMAIN st THEN Ok(None)
    ELSE IF \E i \in DOMAIN byte_ranges :
                byte_ranges[i].offset + byte_ranges[i].length > Len(st[key])
    THEN Err("InvalidByteRangeError")
    ELSE Ok(Some([i \in DOMAIN byte_ranges |->
                    SubSeq(st[key], byte_ranges[i].offset + 1,
                           byte_ranges[i].offset + byte_ranges[i].length)]))

\* The loop of get_partial_values_batched_by_key over the key ranges left,
\* and its last batch.  `reads` lists the calls of get_partial_values_key.
RECURSIVE BatchedLoop(_, _, _, _, _, _)
BatchedLoop(st, key_ranges, out, last_key, byte_ranges_key, reads) ==
    LET key   == IF key_ranges = <<>> \/ last_key.some THEN last_key
                 ELSE Some(Head(key_ranges).key)
        flush == key_ranges = <<>> \/ Head(key_ranges).key # key.val
        got   == get_partial_values_key(st, key.val, byte_ranges_key)
        bytes == IF got.val.some
                 THEN [i \in DOMAIN byte_ranges_key |-> Some(got.val.val[i])]
                 ELSE [i \in DOMAIN byte_ranges_key |-> None]
    IN  IF key_ranges = <<>> /\ byte_ranges_key = <<>>
        THEN [ok |-> TRUE, val |-> out, reads |-> reads]
        ELSE IF ~flush
        THEN BatchedLoop(st, Tail(key_ranges), out, key,
                         Append(byte_ranges_key, Head(key_ranges).byte_range), reads)
        ELSE IF ~got.ok
        THEN [ok |-> FALSE, err |-> got.err, reads |-> Append(reads, key.val)]
        ELSE IF key_ranges = <<>>
        THEN [ok |-> TRUE, val |-> out \o bytes, reads |-> Append(reads, key.val)]
        ELSE BatchedLoop(st, Tail(key_ranges), out \o bytes, Some(Head(key_ranges).key),
                         <<Head(key_ranges).byte_range>>, Append(reads, key.val))

\* All the ranges of a key are read in one batch, wherever they are in the
\* list.
get_partial_values_batched_by_key_anywhere(st, key_ranges) ==
    LET first(kr) == kr.key = Head(key_ranges).key
        other(kr) == kr.key # Head(key_ranges).key
    IN  BatchedLoop(st, SelectSeq(key_ranges, first) \o SelectSeq(key_ranges, other),
                    <<>>, None, <<>>, <<>>)

\* ReadableStorageTraits::get_partial_values_batched_by_key
get_partial_values_batched_by_key(st, key_ranges) ==
    BatchedLoop(st, key_ranges, <<>>, None, <<>>, <<>>)

\* WritableStorageTraits::erase_values, from the keys left and the value of
\* all_deleted (true before the first key): all_deleted && self.erase(key)
\* calls erase only while all_deleted is true.
RECURSIVE erase_values(_, _, _)
erase_values(st, keys, all_deleted) ==
    IF keys = <<>> THEN [store |-> st, all_deleted |-> all_deleted]
    ELSE IF all_deleted
    THEN erase_values(store_erase(st, Head(keys)), Tail(keys), Head(keys) \in DOMAIN st)
    ELSE erase_values(st, Tail(keys), FALSE)

\* The sequences over S of length at most n.
SeqsUpTo(S, n) == UNION {[1..k -> S] : k \in 0..n}

\* The keys used.
StoreKeys == {"a", "b"}

\* StoreKeyStartValue lists: the value of the i-th entry is made of bytes i.
KeyStartValueLists ==
    { [i \in DOMAIN l |-> [key |-> l[i][1], start |-> l[i][2],
                           value |-> Repeat(i, l[i][3])]] :
        l \in SeqsUpTo(StoreKeys \X (0..2) \X (0..2), MaxList) }

\* StoreKeyRange lists, the byte ranges given by offset and length.
KeyRangeLists ==
    SeqsUpTo({[key |-> k, byte_range |-> [offset |-> r[1], length |-> r[2]]] :
                 k \in StoreKeys, r \in {<<0, 1>>, <<1, 1>>, <<0, 2>>}}, MaxList)

\* One call of a store method; `calls` keeps its arguments and the store
\* before it, rd its result.
StoreCall(op, args, st, result) ==
    /\ calls = <<>>
    /\ calls' = <<[op |-> op, args |-> args, before |-> store]>>
    /\ store' = st
    /\ rd' = Some(result)
    /\ UNCHANGED <<array, config, shape, chunk_shape, fill_value, store_empty_chunks,
                   chunk_locks, table_owner, locked, tasks>>

\* store.set_partial_values(key_start_values)
SetPartialValues(key_start_values) ==
    StoreCall("set_partial_values", key_start_values,
              set_partial_values(store, key_start_values), "Ok")

\* store.get_partial_values_batched_by_key(key_ranges)
GetPartialValuesBatchedByKey(key_ranges) ==
    StoreCall("get_partial_values_batched_by_key", key_ranges, store,
              get_partial_values_batched_by_key(store, key_ranges))

\* store.erase_values(keys)
EraseValues(keys) ==
    StoreCall("erase_values", keys, erase_values(store, keys, TRUE).store,
              erase_values(store, keys, TRUE).all_deleted)

\* The node paths and the chunk grid indices of the keys computed.
NodePaths == {"/", "/a/b", "/array"}

ChunkGridIndices == SeqsUpTo({0, 1, 10}, 2)

\* meta_key(&path)
MetaKey(path) == StoreCall("meta_key", path, store, meta_key(path))

\* data_key(&path, chunk_grid_indices, &chunk_key_encoding)
DataKey(path, chunk_grid_indices) ==
    StoreCall("data_key", [path |-> path, chunk_grid_indices |-> chunk_grid_indices],
              store, data_key(path, chunk_grid_indices))

\* node_exists(storage, path): the default of map_or, whether list_dir of the
\* path's prefix succeeds, is computed first; any Ok of get, Some or None,
\* gives true, an Err of get gives the default.
node_exists(st, path, get_fails, list_dir_fails) ==
    LET listed == ~list_dir_fails
        got    == IF get_fails THEN Err("StorageError") ELSE Ok(store_get(st, meta_key(path)))
    IN  Ok(IF got.ok THEN TRUE ELSE listed)

NodeExists(path, get_fails, list_dir_fails) ==
    StoreCall("node_exists",
              [path |-> path, get_fails |-> get_fails, list_dir_fails |-> list_dir_fails],
              store, node_exists(store, path, get_fails, list_dir_fails))

\* The stores before the call: values of different bytes, a missing key, the
\* metadata of a node.
InitStores ==
    { EmptyStore,
      store_set(EmptyStore, "array/zarr.json", <<1>>),
      store_set(EmptyStore, "a", <<7, 8>>),
      store_set(store_set(EmptyStore, "a", <<7, 8>>), "b", <<9>>) }

InitStore ==
    /\ array = NoArray
    /\ config = InitialisedConfig
    /\ shape = <<>>
    /\ chunk_shape = <<>>
    /\ fill_value = 0
    /\ store_empty_chunks = FALSE
    /\ store \in InitStores
    /\ chunk_locks = [tb \in Tables |-> [c \in {} |-> 0]]
    /\ table_owner = [tb \in Tables |-> NoTask]
    /\ locked = {}
    /\ calls = <<>>
    /\ tasks = {}
    /\ rd = None

NextStore ==
    \/ \E key_start_values \in KeyStartValueLists : SetPartialValues(key_start_values)
    \/ \E key_ranges \in KeyRangeLists : GetPartialValuesBatchedByKey(key_ranges)
    \/ \E keys \in SeqsUpTo(StoreKeys, MaxList) : EraseValues(keys)
    \/ \E path \in NodePaths : MetaKey(path)
    \/ \E path \in NodePaths, get_fails \in BOOLEAN, list_dir_fails \in BOOLEAN :
           NodeExists(path, get_fails, list_dir_fails)
    \/ \E path \in NodePaths, c \in ChunkGridIndices : DataKey(path, c)

SpecStore == InitStore /\ [][NextStore]_vars

\* The call made, if it is a call of `op`.
Called(op) == calls # <<>> /\ calls[1].op = op

\* The value of a key, a missing key taken as empty.
ValueOf(st, key) == IF key \in DOMAIN st THEN st[key] ELSE <<>>

\* The entries of a list that cover byte p of a key.
Covering(l, key, p) ==
    {i \in DOMAIN l : l[i].key = key /\ l[i].start < p /\ p <= l[i].start + Len(l[i].value)}

\* C17: set_partial_values reads each key, patches the (start, value) ranges
\* in list order and writes the key back: after it returns Ok the length of
\* each listed key is the larger of its old length and the largest range end,
\* a byte inside a range holds the last value written over it, an old byte
\* outside every range is unchanged, a byte beyond the old length that no
\* range covers is zero, and a missing key is taken as empty.
C17_SetPartialValues ==
    Called("set_partial_values") =>
        LET l == calls[1].args
        IN  /\ rd = Some("Ok")
            /\ \A key \in StoreKeys \ {l[i].key : i \in DOMAIN l} :
                   store_get(store, key) = store_get(calls[1].before, key)
            /\ \A key \in {l[i].key : i \in DOMAIN l} :
                 LET old  == ValueOf(calls[1].before, key)
                     ends == {l[i].start + Len(l[i].value) : i \in {j \in DOMAIN l : l[j].key = key}}
                 IN  /\ key \in DOMAIN store
                     /\ Len(store[key]) = CHOOSE m \in ends \cup {Len(old)} :
                                              \A e \in ends \cup {Len(old)} : e <= m
                     /\ \A p \in 1..Len(store[key]) :
                          store[key][p] =
                            IF Covering(l, key, p) # {}
                            THEN LET i == CHOOSE i \in Covering(l, key, p) :
                                              \A j \in Covering(l, key, p) : j <= i
                                 IN  l[i].value[p - l[i].start]
                            ELSE IF p <= Len(old) THEN old[p] ELSE 0

\* Key "a" was written twice with key "b" in between: the first write went
\* past the old end, the later one overwrote an old byte, and the missing key
\* "b" got a zero before its value.
C17_Witness ==
    /\ Called("set_partial_values")
    /\ calls[1].before = store_set(EmptyStore, "a", <<7, 8>>)
    /\ Len(calls[1].args) = 3
    /\ store = store_set(store_set(EmptyStore, "a", <<7, 3, 1>>), "b", <<0, 2>>)

\* C18: get_partial_values_batched_by_key returns, for every list of (key,
\* byte range) pairs, in which keys may repeat and alternate, a list of the
\* same length whose i-th entry is the bytes of the i-th range of the i-th
\* key, or None if that key is missing, as if each range were read on its
\* own; for the empty list it returns the empty list without a read of the
\* store.
C18_BatchedByKey ==
    Called("get_partial_values_batched_by_key") =>
        LET l == calls[1].args
            r == rd.val
            one(i) == get_partial_values_key(store, l[i].key, <<l[i].byte_range>>)
        IN  /\ store = calls[1].before
            /\ r.ok <=> \A i \in DOMAIN l : one(i).ok
            /\ r.ok =>
                 /\ Len(r.val) = Len(l)
                 /\ \A i \in DOMAIN l :
                      /\ l[i].key \notin DOMAIN store => r.val[i] = None
                      /\ l[i].key \in DOMAIN store =>
                           /\ r.val[i] = Some(SubSeq(store[l[i].key],
                                                     l[i].byte_range.offset + 1,
                                                     l[i].byte_range.offset
                                                         + l[i].byte_range.length))
                           /\ r.val[i] = Some(one(i).val.val[1])
            /\ l = <<>> => r.ok /\ r.val = <<>> /\ r.reads = <<>>

\* Two different ranges of key "a" were read with the missing key "b"
\* between them.
C18_Witness ==
    /\ Called("get_partial_values_batched_by_key")
    /\ rd.val.ok
    /\ rd.val.val = <<Some(<<8>>), None, Some(<<7>>)>>
    /\ rd.val.reads = <<"a", "b", "a">>

\* C19: after erase_values(keys) returns Ok none of the listed keys is in
\* the store, and it returns true exactly when every listed key was in the
\* store before the call.
C19_EraseValues ==
    Called("erase_values") =>
        /\ \A i \in DOMAIN calls[1].args : calls[1].args[i] \notin DOMAIN store
        /\ rd.val <=> \A i \in DOMAIN calls[1].args :
                          calls[1].args[i] \in DOMAIN calls[1].before

\* A key that is not empty, does not start or end with "/" and has no empty
\* component.
WellFormedKey(k) ==
    /\ k # ""
    /\ \A i \in 1..Len(k) :
         SubSeq(k, i, i) = "/" => /\ i # 1
                                  /\ i # Len(k)
                                  /\ SubSeq(k, i + 1, i + 1) # "/"

\* C20: the metadata key of the root is "zarr.json" and that of "/a/b" is
\* "a/b/zarr.json"; the data key of chunk c is "a/b/<encoded c>" for the path
\* "/a/b" and "<encoded c>" for the root; a key is never empty, never starts
\* with "/" and has no empty component; different chunks of one array have
\* different keys.
C20_KeyLayout ==
    /\ Called("meta_key") =>
         /\ calls[1].args = "/" => rd.val = "zarr.json"
         /\ calls[1].args = "/a/b" => rd.val = "a/b/zarr.json"
         /\ calls[1].args # "/" =>
                rd.val = SubSeq(calls[1].args, 2, Len(calls[1].args)) \o "/zarr.json"
         /\ WellFormedKey(rd.val)
    /\ Called("data_key") =>
         LET path == calls[1].args.path
             c    == calls[1].args.chunk_grid_indices
         IN  /\ path = "/" => rd.val = chunk_key_encode(c)
             /\ path = "/a/b" => rd.val = "a/b/" \o chunk_key_encode(c)
             /\ path # "/" =>
                    rd.val = SubSeq(path, 2, Len(path)) \o "/" \o chunk_key_encode(c)
             /\ c = <<1, 0>> /\ path = "/" => rd.val = "c/1/0"
             /\ WellFormedKey(rd.val)
             /\ \A c2 \in ChunkGridIndices \ {c} : data_key(path, c2) # rd.val

\* The key of chunk (1, 0) of the array at "/a/b" was computed.
C20_Witness ==
    /\ Called("data_key")
    /\ calls[1].args = [path |-> "/a/b", chunk_grid_indices |-> <<1, 0>>]
    /\ rd.val = "a/b/c/1/0"

(***************************************************************************)
(* The bz2 and zstd bytes-to-bytes codecs.  A compressed value is a frame: *)
(* the name of the codec, its parameters and a sequence of blocks, each a  *)
(* run-length coding (a sequence of <<run length, byte>> pairs) of a part  *)
(* of the value.                                                           *)
(***************************************************************************)
\* The parts of b of n bytes each, the last one without its remainder.
RECURSIVE Blocks_whole_only(_, _)
Blocks_whole_only(b, n) ==
    IF n = 0 \/ Len(b) < n THEN <<>>
    ELSE <<SubSeq(b, 1, n)>> \o Blocks_whole_only(SubSeq(b, n + 1, Len(b)), n)

\* The parts of b of n bytes each, the last one possibly shorter.
RECURSIVE Blocks(_, _)
Blocks(b, n) ==
    IF b = <<>> THEN <<>>
    ELSE IF Len(b) <= n THEN <<b>>
    ELSE <<SubSeq(b, 1, n)>> \o Blocks(SubSeq(b, n + 1, Len(b)), n)

\* The content checksum of a frame.
RECURSIVE Checksum(_)
Checksum(b) == IF b = <<>> THEN 0 ELSE (Head(b) + 31 * Checksum(Tail(b))) % 256

\* The decoded bytes of a sequence of blocks.
RECURSIVE Unblock(_)
Unblock(blocks) ==
    IF blocks = <<>> THEN <<>> ELSE Expand(Head(blocks)) \o Unblock(Tail(blocks))

\* Bz2Codec::encode: blocks of `level` units; level 0 stores every byte as it
\* is ("Compression is turned off when the compression level is 0").
bz2_encode(decoded_value, level) ==
    [codec |-> "bz2", level |-> level,
     blocks |-> IF level = 0
                THEN [i \in DOMAIN decoded_value |-> <<<<1, decoded_value[i]>>>>]
                ELSE [i \in DOMAIN Blocks(decoded_value, level) |->
                         encode(Blocks(decoded_value, level)[i])]]

\* Bz2Codec::decode
bz2_decode(encoded_value) ==
    IF encoded_value.codec # "bz2" THEN Err("IOError") ELSE Ok(Unblock(encoded_value.blocks))

\* ZstdCodec::encode_opt: one frame with or without a content checksum; with
\* `parallel` the value is compressed in one job per available thread.
zstd_encode_opt(decoded_value, checksum, parallel) ==
    LET job == (Len(decoded_value) + AvailableParallelism - 1) \div AvailableParallelism
        jobs == IF parallel THEN Blocks(decoded_value, job) ELSE Blocks(decoded_value, Len(decoded_value))
    IN  [codec |-> "zstd",
         checksum |-> IF checksum THEN Some(Checksum(decoded_value)) ELSE None,
         blocks |-> [i \in DOMAIN jobs |-> encode(jobs[i])]]

\* ZstdCodec::decode_opt: zstd::decode_all, which verifies a checksum that is
\* in the frame.
zstd_decode_opt(encoded_value) ==
    IF encoded_value.codec # "zstd" THEN Err("IOError")
    ELSE IF /\ encoded_value.checksum.some
            /\ encoded_value.checksum.val # Checksum(Unblock(encoded_value.blocks))
    THEN Err("IOError")
    ELSE Ok(Unblock(encoded_value.blocks))

\* The length of a range is taken for its end.
extract_byte_ranges_length_as_end(bytes, byte_ranges) ==
    IF \E i \in DOMAIN byte_ranges : byte_ranges[i].length > Len(bytes)
    THEN Err("InvalidByteRangeError")
    ELSE Ok([i \in DOMAIN byte_ranges |->
                SubSeq(bytes, byte_ranges[i].offset + 1, byte_ranges[i].length)])

\* extract_byte_ranges: the bytes of each range, in the order of the ranges.
extract_byte_ranges(bytes, byte_ranges) ==
    IF \E i \in DOMAIN byte_ranges :
           byte_ranges[i].offset + byte_ranges[i].length > Len(bytes)
    THEN Err("InvalidByteRangeError")
    ELSE Ok([i \in DOMAIN byte_ranges |->
                SubSeq(bytes, byte_ranges[i].offset + 1,
                       byte_ranges[i].offset + byte_ranges[i].length)])

\* A codec encodes, decodes.
codec_encode(c, decoded_value) ==
    IF c.name = "bz2" THEN bz2_encode(decoded_value, c.level)
    ELSE zstd_encode_opt(decoded_value, c.checksum, c.parallel)

codec_decode(c, encoded_value) ==
    IF c.name = "bz2" THEN bz2_decode(encoded_value) ELSE zstd_decode_opt(encoded_value)

\* Bz2PartialDecoder / ZstdPartialDecoder::partial_decode: read the whole
\* encoded value from the input handle (None if there is none), decode it
\* and take the ranges from the decoded value.
partial_decode(c, input_handle, decoded_regions) ==
    IF ~input_handle.some THEN Ok(None)
    ELSE LET decoded == codec_decode(c, input_handle.val)
             ranges  == extract_byte_ranges(decoded.val, decoded_regions)
         IN  IF ~decoded.ok THEN decoded
             ELSE IF ~ranges.ok THEN ranges
             ELSE Ok(Some(ranges.val))

\* The codecs used and the byte ranges within a value of n bytes.
Bz2Codecs(levels) == {[name |-> "bz2", level |-> l] : l \in levels}

ZstdCodecs ==
    {[name |-> "zstd", checksum |-> s, parallel |-> p] : s \in BOOLEAN, p \in BOOLEAN}

ByteRangesIn(n) ==
    {r \in [offset : 0..n, length : 0..n] : r.offset + r.length <= n}

\* codec.decode(codec.encode(bytes))
RoundTrip(c, bytes) ==
    StoreCall("decode", [codec |-> c, bytes |-> bytes], store,
              codec_decode(c, codec_encode(c, bytes)))

\* codec.partial_decoder(Cursor::new(codec.encode(bytes))).partial_decode(regions)
PartialDecode(c, bytes, decoded_regions) ==
    StoreCall("partial_decode",
              [codec |-> c, bytes |-> bytes, decoded_regions |-> decoded_regions], store,
              partial_decode(c, Some(codec_encode(c, bytes)), decoded_regions))

\* The largest u64 of the model: sizes are kept in 16 bits, so that the sizes
\* at which the sums below leave the type can be enumerated.
u64_MAX == 2^16 - 1

u64(x) == x % (u64_MAX + 1)

BytesRepresentations(sizes) ==
    {[kind |-> "UnboundedSize"]} \cup [kind : {"FixedSize", "BoundedSize"}, size : sizes]

\* BytesRepresentation::size
BytesRepresentation_size(r) == IF r.kind = "UnboundedSize" THEN None ELSE Some(r.size)

HEADER_TRAILER_OVERHEAD == 4 + 14 + 4
MIN_WINDOW_SIZE == 1000
BLOCK_OVERHEAD == 3

\* ZstdCodec::compute_encoded_size in u64 arithmetic: a sum, difference or
\* product outside the type panics in a build with overflow checks and wraps
\* in a build without.
compute_encoded_size(decoded_representation, overflow_checks) ==
    IF ~BytesRepresentation_size(decoded_representation).some
    THEN Ok([kind |-> "UnboundedSize"])
    ELSE LET size == BytesRepresentation_size(decoded_representation).val
             s1   == size + MIN_WINDOW_SIZE
             s2   == u64(s1) - 1
             b    == BLOCK_OVERHEAD * (u64(s2) \div MIN_WINDOW_SIZE)
             t1   == size + HEADER_TRAILER_OVERHEAD
             t2   == u64(t1) + u64(b)
         IN  IF overflow_checks /\ \E x \in {s1, s2, b, t1, t2} : x < 0 \/ x > u64_MAX
             THEN Err("panic: arithmetic overflow")
             ELSE Ok([kind |-> "BoundedSize", size |-> u64(t2)])

ComputeEncodedSize(decoded_representation, overflow_checks) ==
    StoreCall("compute_encoded_size",
              [decoded_representation |-> decoded_representation,
               overflow_checks |-> overflow_checks], store,
              compute_encoded_size(decoded_representation, overflow_checks))

NextCodec ==
    \/ /\ calls = <<>>
       /\ \E r \in BytesRepresentations((0..2001) \cup ((u64_MAX - 1100)..u64_MAX)) :
              \E overflow_checks \in BOOLEAN : ComputeEncodedSize(r, overflow_checks)
    \/ /\ calls = <<>>
       /\ \E c \in Bz2Codecs(0..9) \cup ZstdCodecs, bytes \in SeqsUpTo(Vals, 3) :
              RoundTrip(c, bytes)
    \/ /\ calls = <<>>
       /\ \E c \in Bz2Codecs({0, 1, 5}) \cup ZstdCodecs, bytes \in SeqsUpTo(Vals, 3) :
           \E decoded_regions \in SeqsUpTo(ByteRangesIn(Len(bytes)), MaxList) :
               PartialDecode(c, bytes, decoded_regions)

SpecCodec == InitMeta /\ [][NextCodec]_vars

C23_ComputeEncodedSize ==
    Called("compute_encoded_size") =>
        LET r == calls[1].args.decoded_representation
        IN  /\ rd.val.ok
            /\ IF r.kind = "UnboundedSize" THEN rd.val.val.kind = "UnboundedSize"
               ELSE /\ rd.val.val.kind = "BoundedSize"
                    /\ rd.val.val.size = r.size + 22 + 3 * ((r.size \div 1000) + (IF r.size % 1000 = 0 THEN 0 ELSE 1))
                    /\ rd.val.val.size >= r.size + 22

\* The store has a key under the prefix of the node path.
StoredUnder(st, path) ==
    LET prefix == IF path = "/" THEN "" ELSE StripRoot(path) \o "/"
    IN  \E k \in DOMAIN st : Len(k) >= Len(prefix) /\ SubSeq(k, 1, Len(prefix)) = prefix

\* C24: with a store that does not fail, node_exists returns Ok(true) only if
\* the store holds a metadata document at meta_key(path) or has keys under
\* the path, and Ok(false) for a path without a metadata key and with nothing
\* stored under it.
C24_NodeExists ==
    (/\ Called("node_exists")
     /\ ~calls[1].args.get_fails
     /\ ~calls[1].args.list_dir_fails) =>
        /\ rd.val.ok
        /\ rd.val.val <=> \/ meta_key(calls[1].args.path) \in DOMAIN store
                          \/ StoredUnder(store, calls[1].args.path)

(***************************************************************************)
(* The chunks of an array subset.                                          *)
(***************************************************************************)
\* ChunkGridTraits::chunk_indices: an error for indices or a shape of another
\* rank than the grid, otherwise the chunk of the index, or None where the
\* grid does not determine it.
ChunkGrid_chunk_indices(array_indices, array_shape, cs, determined) ==
    IF Len(array_indices) # Len(cs) \/ Len(array_shape) # Len(cs)
    THEN Err("IncompatibleDimensionalityError")
    ELSE Ok(IF determined THEN Some(chunk_indices(array_indices, cs)) ELSE None)

\* Array::chunk_grid_shape
chunk_grid_shape(shp, cs) == Some(grid_shape(shp, cs))

\* Array::chunks_in_array_subset, with the error and the None of the grid:
\* an end chunk that is not determined is replaced by the chunk grid shape.
Array_chunks_in_array_subset(shp, cs, array_subset, start_determined, end_determined) ==
    LET chunks_start == ChunkGrid_chunk_indices(array_subset.start, shp, cs, start_determined)
        chunks_end0  == ChunkGrid_chunk_indices(end_inc(array_subset), shp, cs, end_determined)
        chunks_end   == IF chunks_end0.val.some THEN chunks_end0.val ELSE chunk_grid_shape(shp, cs)
    IN  IF ~chunks_start.ok THEN chunks_start
        ELSE IF ~chunks_end0.ok THEN chunks_end0
        ELSE Ok(IF chunks_start.val.some /\ chunks_end.some
                THEN Some(new_with_start_end_inc(chunks_start.val.val, chunks_end.val))
                ELSE None)

\* array.chunks_in_array_subset(&array_subset) of an array of shape shp with
\* a regular grid of chunk shape cs.
ChunksInArraySubset(shp, cs, array_subset, start_determined, end_determined) ==
    StoreCall("chunks_in_array_subset",
              [shape |-> shp, chunk_shape |-> cs, array_subset |-> array_subset,
               start_determined |-> start_determined, end_determined |-> end_determined],
              store,
              Array_chunks_in_array_subset(shp, cs, array_subset,
                                           start_determined, end_determined))

NextGrid ==
    \/ /\ calls = <<>>
       /\ \E a \in {<<<<4, 3>>, <<2, 2>>>>, <<<<5>>, <<2>>>>} :
          \E array_subset \in SubsetsOf(<<5, 4>>) \cup SubsetsOf(<<6>>) :
          \E start_determined \in BOOLEAN, end_determined \in BOOLEAN :
              ChunksInArraySubset(a[1], a[2], array_subset, start_determined, end_determined)

SpecGrid == InitMeta /\ [][NextGrid]_vars

ReadCall_stores_fill_value(op, args, result) ==
    /\ array.ok /\ calls = <<>>
    /\ rd' = Some([op |-> op, args |-> args, result |-> result])
    /\ store' = [k \in DOMAIN store \cup {data_key(ArrayPath, c) : c \in AllChunks} |->
                    IF k \in DOMAIN store THEN store[k] ELSE encode(FillBytes)]
    /\ UNCHANGED <<array, config, shape, chunk_shape, fill_value, store_empty_chunks,
                   chunk_locks, table_owner, locked, calls, tasks>>

\* A read operation of the Array (&self, a readable store), between the
\* store operations of the caller: its result is kept in rd.
ReadCall(op, args, result) ==
    /\ array.ok /\ calls = <<>>
    /\ rd' = Some([op |-> op, args |-> args, result |-> result])
    /\ UNCHANGED <<array, config, shape, chunk_shape, fill_value, store_empty_chunks, store,
                   chunk_locks, table_owner, locked, calls, tasks>>

NextReads ==
    \/ \E c \in AllChunks, sub \in SubsetsOf(chunk_shape), v \in CallVals :
           /\ array.ok /\ calls = <<>>
           /\ StoreChunkSubset(1, "sync", c, sub, Repeat(v, num_elements(sub)))
    \/ \E c \in AllChunks, v \in CallVals :
           /\ array.ok /\ calls = <<>>
           /\ StoreChunk(1, "sync", c, Repeat(v, ChunkSize))
    \/ \E t \in DOMAIN tasks : LockTable(t)
    \/ \E t \in DOMAIN tasks : Entry(t)
    \/ \E t \in DOMAIN tasks : Acquire(t)
    \/ \E t \in DOMAIN tasks : Read(t, TRUE)
    \/ \E t \in DOMAIN tasks : Write(t, "none")
    \/ \E t \in DOMAIN tasks : Release(t)
    \/ Forget
    \/ \E c \in AllChunks, io_ok \in BOOLEAN :
           ReadCall("retrieve_chunk", [chunk |-> c, io_ok |-> io_ok],
                    Array_retrieve_chunk(store, c, io_ok))
    \/ \E c \in AllChunks, sub \in SubsetsOf(chunk_shape) :
           ReadCall("retrieve_chunk_subset", [chunk |-> c, sub |-> sub],
                    Array_retrieve_chunk_subset(store, c, sub))
    \/ \E s \in SubsetsOf(shape) :
           ReadCall("retrieve_array_subset", s, Array_retrieve_array_subset(store, s))
    \/ ReadCall("metadata", <<>>, metadata(Self))
    \/ calls = <<>> /\ Drop
    \/ \E zarr_format \in {2, 3} :
           NewWithMetadata(ArrayPath, [BuilderMetadata(shape, chunk_shape, fill_value)
                                          EXCEPT !.zarr_format = zarr_format])

SpecReads == InitSeq /\ [][NextReads]_vars

\* C26: new_with_metadata, metadata(), retrieve_chunk, retrieve_chunk_subset
\* and retrieve_array_subset leave every key and value of the store as it
\* is, also when a chunk is missing and the fill value is returned; the store
\* changes only in the write of a store_chunk, store_chunk_subset or
\* store_array_subset call, which sets or erases the key of its chunk.
C26_ReadsLeaveStore ==
    [][/\ ((rd' # rd /\ rd'.some) \/ array' # array) => store' = store
       /\ store' # store =>
            \E t \in DOMAIN tasks :
                /\ tasks[t].pc = "write"
                /\ calls[t[1]].state = "running"
                /\ calls[t[1]].op \in {"store_chunk", "store_chunk_subset", "store_array_subset"}
                /\ \A k \in (DOMAIN store \cup DOMAIN store') \ {data_key(ArrayPath, t[2])} :
                       k \in DOMAIN store /\ k \in DOMAIN store' /\ store'[k] = store[k]]_vars

\* A subset over a missing chunk was read as fill values from a store that
\* holds another key, and the key of the chunk is still missing.
C26_Witness ==
    /\ rd.some
    /\ "op" \in DOMAIN rd.val
    /\ rd.val.op = "retrieve_array_subset"
    /\ rd.val.result.ok
    /\ rd.val.result.val = Repeat(fill_value, num_elements(rd.val.args))
    /\ \E c \in AllChunks :
           /\ ~Disjoint(grid_subset(c, chunk_shape), rd.val.args)
           /\ data_key(ArrayPath, c) \notin DOMAIN store
    /\ DOMAIN store # {}

(***************************************************************************)
(* The lock table and the chunk locks.                                     *)
(***************************************************************************)
\* C27: the mutex of the lock table is held only between the lock and the
\* drop inside chunk_mutex: its holder is looking up or inserting an entry
\* and can always go on, never waits for or holds a chunk mutex; so a
\* store_chunk_subset waiting for the lock of its chunk can take it whenever
\* no operation is inside the locked section of that same chunk, whatever
\* operations on other chunks hold or wait for.
C27_TableMutexOnlyInChunkMutex ==
    /\ \A tb \in Tables :
           table_owner[tb] # NoTask =>
               /\ table_owner[tb] \in DOMAIN tasks
               /\ tasks[table_owner[tb]].pc = "entry"
               /\ Table(table_owner[tb]) = tb
               /\ ENABLED Entry(table_owner[tb])
    /\ \A u \in DOMAIN tasks :
           (tasks[u].pc = "table" /\ table_owner[Table(u)] = NoTask) => ENABLED LockTable(u)
    /\ \A u \in DOMAIN tasks :
           (/\ tasks[u].pc = "acquire"
            /\ ~\E t \in DOMAIN tasks \ {u} :
                   t[2] = u[2] /\ Table(t) = Table(u) /\ InLockedSection(t))
               => ENABLED Acquire(u)

\* One operation holds the lock of a chunk and another waits for it, while
\* an operation on a different chunk has passed the table and holds the lock
\* of its own chunk, and a fourth is inside chunk_mutex.
C27_Witness ==
    \E t \in DOMAIN tasks, u \in DOMAIN tasks, v \in DOMAIN tasks, w \in DOMAIN tasks :
        /\ t[2] = u[2] /\ t # u
        /\ InLockedSection(t)
        /\ tasks[u].pc = "acquire" /\ MutexOf(u) = MutexOf(t)
        /\ v[2] # t[2] /\ InLockedSection(v)
        /\ w[2] # t[2] /\ table_owner[Table(w)] = w

\* C28: the chunk-lock table only grows: an entry of a table is never removed
\* or replaced by a step, whoever holds its mutex, and every clone that
\* chunk_mutex has returned for a coordinate, under any interleaving with
\* calls for other coordinates, is the mutex object of the table's entry.
C28_LockTableOnlyGrows ==
    /\ [](\A t \in DOMAIN tasks :
             tasks[t].mutex # 0 =>
                 /\ t[2] \in DOMAIN chunk_locks[Table(t)]
                 /\ tasks[t].mutex = chunk_locks[Table(t)][t[2]])
    /\ [][\A tb \in Tables : \A c \in DOMAIN chunk_locks[tb] :
              c \in DOMAIN chunk_locks'[tb] /\ chunk_locks'[tb][c] = chunk_locks[tb][c]]_vars

\* The table holds the entries of two coordinates; a writer holds the mutex
\* of one of them, and a later call has been given the same mutex and waits
\* for it.
C28_Witness ==
    \E t \in DOMAIN tasks, u \in DOMAIN tasks :
        /\ t # u /\ t[2] = u[2]
        /\ InLockedSection(t)
        /\ tasks[u].pc = "acquire" /\ tasks[u].mutex = tasks[t].mutex
        /\ Cardinality(DOMAIN chunk_locks[Table(t)]) = 2

(***************************************************************************)
(* Termination of concurrent store operations under fair scheduling.       *)
(***************************************************************************)
\* A step of one of the chunk operations in flight; the store answers.
Step ==
    \E t \in DOMAIN tasks :
        \/ LockTable(t)
        \/ Entry(t)
        \/ Acquire(t)
        \/ Read(t, TRUE)
        \/ Write(t, "none")
        \/ Release(t)

\* Threads call store_array_subset on the first row of the array, a part of
\* each of its chunks, and store_chunk_subset on the first element of the
\* first chunk.
NextLive ==
    \/ /\ Len(calls) < MaxCalls
       /\ StoreArraySubset(1, "sync", ArraySubset(<<0, 0>>, <<1, shape[2]>>),
                            Repeat(Len(calls) + 1, shape[2]))
    \/ /\ Len(calls) < MaxCalls
       /\ StoreChunkSubset(1, "sync", <<0, 0>>, ArraySubset(<<0, 0>>, <<1, 1>>),
                            <<Len(calls) + 1>>)
    \/ Step

\* Every thread that can take a step eventually takes one.
SpecLive == Init /\ [][NextLive]_vars /\ WF_vars(Step)

\* C29: a store_chunk_subset call holds at most one chunk lock and no
\* operation holds the table mutex while it acquires a chunk lock; in no
\* reachable state are there unfinished operations none of which can take a
\* step; and under fair scheduling, whenever a store_chunk_subset or
\* store_array_subset call is running, eventually every call has returned.
C29_EveryCallReturns ==
    /\ [](\A k \in 1..Len(calls) :
             calls[k].op = "store_chunk_subset" =>
                 Cardinality({m \in locked : \E t \in DOMAIN tasks :
                                  t[1] = k /\ InLockedSection(t) /\ MutexOf(t) = m}) <= 1)
    /\ [](\A t \in DOMAIN tasks :
             tasks[t].pc \in {"acquire", "read", "write", "release"} =>
                 table_owner[Table(t)] # t)
    /\ []((\E t \in DOMAIN tasks : tasks[t].pc # "done") => ENABLED Step)
    /\ (\E k \in 1..Len(calls) : calls[k].state = "running") ~> AllReturned

\* Two store_array_subset calls over the same two chunks: the first holds
\* the lock of one chunk and waits for the other, which the second holds
\* while it waits for the lock the first holds.
C29_Witness ==
    \E c \in AllChunks, d \in AllChunks :
        /\ c # d
        /\ Len(calls) = 2
        /\ {<<1, c>>, <<1, d>>, <<2, c>>, <<2, d>>} \subseteq DOMAIN tasks
        /\ InLockedSection(<<1, c>>) /\ InLockedSection(<<2, d>>)
        /\ tasks[<<1, d>>].pc = "acquire" /\ tasks[<<1, d>>].kind = "subset"
        /\ tasks[<<2, c>>].pc = "acquire" /\ tasks[<<2, c>>].kind = "subset"

(***************************************************************************)
(* The blocking and the async form on one Array instance.                  *)
(***************************************************************************)
\* Threads call the blocking store_chunk_subset and tasks the async
\* store_chunk_subset of the same Array instance.
NextForms ==
    \/ \E f \in Forms, c \in AllChunks, sub \in SubsetsOf(chunk_shape), v \in CallVals :
           /\ Len(calls) < MaxCalls
           /\ StoreChunkSubset(1, f, c, sub, Repeat(v, num_elements(sub)))
    \/ \E t \in DOMAIN tasks : LockTable(t)
    \/ \E t \in DOMAIN tasks : Entry(t)
    \/ \E t \in DOMAIN tasks : Acquire(t)
    \/ \E t \in DOMAIN tasks : Read(t, TRUE)
    \/ \E t \in DOMAIN tasks : Write(t, "none")
    \/ \E t \in DOMAIN tasks : Release(t)

SpecForms == Init /\ [][NextForms]_vars

\* C30: the tables of the blocking and of the async form are independent:
\* operations inside the locked section of the same chunk of one instance are
\* of different forms, the mutex objects of the two forms are different
\* objects, and an operation waiting for the lock of a chunk can take it
\* whenever no operation of its own form is inside the locked section of that
\* chunk, whatever an operation of the other form holds.
C30_FormsDoNotExclude ==
    /\ \A t \in DOMAIN tasks, u \in DOMAIN tasks :
           (t # u /\ t[2] = u[2] /\ InLockedSection(t) /\ InLockedSection(u))
               => calls[t[1]].form # calls[u[1]].form /\ MutexOf(t) # MutexOf(u)
    /\ \A tb \in Tables : table_owner[tb] # NoTask => calls[table_owner[tb][1]].form = tb[2]
    /\ \A u \in DOMAIN tasks :
           (/\ tasks[u].pc = "acquire"
            /\ ~\E t \in DOMAIN tasks :
                   /\ t[2] = u[2] /\ InLockedSection(t)
                   /\ calls[t[1]].form = calls[u[1]].form)
               => ENABLED Acquire(u)

\* A blocking and an async store_chunk_subset have both read the same chunk
\* under their locks and neither has written it yet: the later write will
\* undo the earlier one.
C30_Witness ==
    \E t \in DOMAIN tasks, u \in DOMAIN tasks :
        /\ t[2] = u[2]
        /\ calls[t[1]].form = "sync" /\ calls[u[1]].form = "async"
        /\ tasks[t].pc = "write" /\ tasks[u].pc = "write"
        /\ tasks[t].kind = "subset" /\ tasks[u].kind = "subset"
        /\ Disjoint(calls[t[1]].subset, calls[u[1]].subset)
        /\ chunk_locks[<<1, "sync">>] # [c \in {} |-> 0]
        /\ chunk_locks[<<1, "async">>] # [c \in {} |-> 0]

====
